---- MODULE Spec2Model ----
(***************************************************************************)
(* Model of the SignalWire REST client (src/src/client.rs, types.rs,       *)
(* errors.rs).                                                             *)
(*                                                                         *)
(* Text (Rust String / &str) is a sequence of string tokens; format! and   *)
(* to_string are concatenation, str::contains is contiguous-subsequence.   *)
(* A response body is such a text; a JSON object is written                *)
(*   << "{", key1, value1, ..., keyN, valueN, "}" >>                       *)
(* and serde_json::from_str is computed from that text by Deserialize.     *)
(***************************************************************************)
EXTENDS Integers, Sequences, FiniteSets, TLC

VARIABLES
    client,        \* SignalWireClient: space_name, project_id, api_key
    pc,            \* position of the running async fn: idle, send, text, done
    op,            \* the operation invoked
    args,          \* its arguments
    phase,         \* 1, or 2 for the listing request of get_subproject_phone_numbers
    requests,      \* HTTP requests sent by the current invocation, in order
    response,      \* the outcome of the last send(): a transport error, or the
                   \* status and the body on the wire
    steps,         \* what the invocation did with the last response, in order:
                   \* classify (a test of the status), text / text_failed
                   \* (response.text()), parse (serde_json::from_str)
    result,        \* the value the invocation returned
    variant,       \* how the operation was invoked: the async fn awaited by the
                   \* caller, or its _blocking wrapper
    server         \* history: what the transport and the server answered to each
                   \* request of the current invocation

vars == <<client, pc, op, args, phase, requests, response, steps, result,
          variant, server>>

(***************************************************************************)
(* Text                                                                    *)
(***************************************************************************)
\* str::contains
Contains(s, t) ==
    \E i \in 0..(Len(s) - Len(t)) : SubSeq(s, i + 1, i + Len(t)) = t

(***************************************************************************)
(* errors.rs: the four error kinds, and the success value                  *)
(***************************************************************************)
NoValue == [unit |-> "()"]

HttpError(msg)  == [kind |-> "HttpError",    msg |-> msg,  value |-> NoValue]
Unauthorized    == [kind |-> "Unauthorized", msg |-> <<>>, value |-> NoValue]
NotFound(msg)   == [kind |-> "NotFound",     msg |-> msg,  value |-> NoValue]
Unexpected(msg) == [kind |-> "Unexpected",   msg |-> msg,  value |-> NoValue]
Ok(v)           == [kind |-> "Ok",           msg |-> <<>>, value |-> v]

ErrorKinds == {"HttpError", "Unauthorized", "NotFound", "Unexpected"}

(***************************************************************************)
(* reqwest::StatusCode                                                     *)
(***************************************************************************)
UNAUTHORIZED == 401
NOT_FOUND == 404

is_client_error(status) == status >= 400 /\ status < 500
is_server_error(status) == status >= 500 /\ status < 600
is_success(status)      == status >= 200 /\ status < 300

(***************************************************************************)
(* types.rs: the response schemas.  A field is (name on the wire, kind,    *)
(* presence): a plain field is required, an Option<T> field is "option",   *)
(* a #[serde(default)] field is "default".  Kinds: str, int, float, bool,  *)
(* arr (Vec), obj (a struct with required fields), objopt (a struct all of *)
(* whose fields may be absent).                                            *)
(***************************************************************************)
F(name, kind, presence) == [name |-> name, kind |-> kind, presence |-> presence]
Req(name, kind) == F(name, kind, "required")
Opt(name, kind) == F(name, kind, "option")
Dflt(name, kind) == F(name, kind, "default")
\* #[serde(skip_deserializing)]: never read from the body; kind opt is an Option
Skip(name, kind) == F(name, kind, "skip")

JwtResponse ==
    << Req("jwt_token", "str"), Req("refresh_token", "str") >>

PhoneNumbersAvailableResponse ==
    << Req("uri", "str"), Req("available_phone_numbers", "arr") >>

PhoneNumbersOwnedResponse ==
    << Req("links", "obj"), Req("data", "arr") >>

BuyPhoneNumberResponse ==
    << Req("id", "str"), Req("number", "str"), Opt("name", "str"),
       Opt("call_handler", "str"), Opt("call_receive_mode", "str"),
       Opt("call_request_url", "str"), Opt("call_request_method", "str"),
       Opt("call_fallback_url", "str"), Opt("call_fallback_method", "str"),
       Opt("call_status_callback_url", "str"),
       Opt("call_status_callback_method", "str"),
       Opt("call_laml_application_id", "str"),
       Opt("call_dialogflow_agent_id", "str"), Opt("call_relay_topic", "str"),
       Opt("call_relay_topic_status_callback_url", "str"),
       Opt("call_relay_context", "str"),
       Opt("call_relay_context_status_callback_url", "str"),
       Opt("call_relay_application", "str"),
       Opt("call_relay_connector_id", "str"),
       Opt("call_sip_endpoint_id", "str"), Opt("call_verto_resource", "str"),
       Opt("call_video_room_id", "str"), Opt("message_handler", "str"),
       Opt("message_request_url", "str"), Opt("message_request_method", "str"),
       Opt("message_fallback_url", "str"),
       Opt("message_fallback_method", "str"),
       Opt("message_laml_application_id", "str"),
       Opt("message_relay_topic", "str"), Opt("message_relay_context", "str"),
       Opt("message_relay_application", "str"), Req("capabilities", "arr"),
       Opt("number_type", "str"), Opt("e911_address_id", "str"),
       Opt("created_at", "str"), Opt("updated_at", "str"),
       Opt("next_billed_at", "str") >>

SmsResponse ==
    << Req("sid", "str"), Req("date_created", "str"),
       Req("date_updated", "str"), Opt("date_sent", "str"),
       Req("account_sid", "str"), Req("to", "str"), Req("from", "str"),
       Opt("messaging_service_sid", "str"), Req("body", "str"),
       Req("status", "str"), Req("num_segments", "int"),
       Req("num_media", "int"), Req("direction", "str"),
       Req("api_version", "str"), Opt("price", "float"),
       Opt("price_unit", "str"), Opt("error_code", "str"),
       Opt("error_message", "str"), Req("uri", "str"),
       Dflt("subresource_uris", "objopt") >>

SubprojectResponse ==
    << Req("sid", "str"), Req("friendly_name", "str"), Req("status", "str"),
       Req("auth_token", "str"), Req("date_created", "str"),
       Req("date_updated", "str"), Opt("type", "str"),
       Opt("owner_account_sid", "str"), Opt("uri", "str"),
       Opt("subproject", "bool"), Opt("signing_key", "str"),
       Req("subresource_uris", "objopt") >>

SubprojectsListResponse ==
    << Opt("uri", "str"), Req("first_page_uri", "str"),
       Opt("next_page_uri", "str"), Opt("previous_page_uri", "str"),
       Opt("page", "int"), Opt("page_size", "int"), Req("accounts", "arr") >>

SubprojectPhoneNumbersResponse ==
    << Req("uri", "str"), Req("first_page_uri", "str"),
       Opt("next_page_uri", "str"), Opt("previous_page_uri", "str"),
       Req("page", "int"), Req("page_size", "int"),
       Req("incoming_phone_numbers", "arr") >>

PhoneLookupResponse ==
    << Opt("country_code_number", "int"), Opt("national_number", "str"),
       Opt("possible_number", "bool"), Opt("valid_number", "bool"),
       Opt("national_number_formatted", "str"),
       Opt("international_number_formatted", "str"), Opt("e164", "str"),
       Opt("location", "str"), Req("country_code", "str"),
       Opt("timezones", "arr"), Opt("number_type", "str"),
       Skip("phone_number", "str"), Skip("national_format", "str"),
       Skip("valid", "bool"), Skip("validation_errors", "opt"),
       Skip("formatted", "bool"), Skip("url", "opt"),
       Skip("carrier", "opt"), Skip("caller_name", "opt") >>

\* the response types the client deserializes
Schemas ==
    { JwtResponse, PhoneNumbersAvailableResponse, PhoneNumbersOwnedResponse,
      BuyPhoneNumberResponse, SmsResponse, SubprojectResponse,
      SubprojectsListResponse, SubprojectPhoneNumbersResponse }

(***************************************************************************)
(* serde_json::from_str::<T>, on the token text of a body.                 *)
(***************************************************************************)
IntTokens   == {"0", "1", "2"}
FloatTokens == {"0.5"}
BoolTokens  == {"true", "false"}

TokenKind(tok) ==
    CASE tok \in IntTokens   -> "int"
      [] tok \in FloatTokens -> "float"
      [] tok \in BoolTokens  -> "bool"
      [] tok = "null"        -> "null"
      [] tok = "[]"          -> "arr"
      [] tok = "{}"          -> "emptyobj"
      [] tok = "{..}"        -> "obj"
      [] OTHER               -> "str"

\* does a JSON value of token kind tk deserialize into a field of this kind
KindAccepts(kind, tk) ==
    CASE kind = "str"    -> tk = "str"
      [] kind = "int"    -> tk = "int"
      [] kind = "float"  -> tk \in {"int", "float"}
      [] kind = "bool"   -> tk = "bool"
      [] kind = "arr"    -> tk = "arr"
      [] kind = "obj"    -> tk = "obj"
      [] kind = "objopt" -> tk \in {"obj", "emptyobj"}
      [] OTHER           -> FALSE

FieldAccepts(f, tok) ==
    \/ KindAccepts(f.kind, TokenKind(tok))
    \/ f.presence = "option" /\ tok = "null"

IsObjectText(t) ==
    Len(t) >= 2 /\ Len(t) % 2 = 0 /\ t[1] = "{" /\ t[Len(t)] = "}"

NMembers(t) == (Len(t) - 2) \div 2
KeyAt(t, i) == t[2 * i]
ValAt(t, i) == t[2 * i + 1]

FieldNames(schema) == {schema[i].name : i \in DOMAIN schema}
FieldOf(schema, k) == schema[CHOOSE i \in DOMAIN schema : schema[i].name = k]

\* member i of the object is rejected by the derived visitor: a known field
\* seen a second time, or a value of the wrong type
BadMember(schema, t, i) ==
    /\ KeyAt(t, i) \in FieldNames(schema)
    /\ FieldOf(schema, KeyAt(t, i)).presence # "skip"
    /\ \/ \E j \in 1..(i - 1) : KeyAt(t, j) = KeyAt(t, i)
       \/ ~FieldAccepts(FieldOf(schema, KeyAt(t, i)), ValAt(t, i))

HasKey(t, k) == \E i \in 1..NMembers(t) : KeyAt(t, i) = k
ValueOf(t, k) == ValAt(t, CHOOSE i \in 1..NMembers(t) : KeyAt(t, i) = k)

\* field i of the struct has no member and no fallback
MissingField(schema, t, i) ==
    schema[i].presence = "required" /\ ~HasKey(t, schema[i].name)

Min(S) == CHOOSE x \in S : \A y \in S : x <= y

ParseOk(v)    == [ok |-> TRUE,  err |-> <<>>, value |-> v]
ParseErr(msg) == [ok |-> FALSE, err |-> msg,  value |-> NoValue]

\* a Deserialize that leaves every field at its fallback
FieldValue_ignoring_member(f, t) ==
    IF f.presence = "default" THEN "Default" ELSE "None"

\* Default::default() of a skipped field
DefaultOf(kind) ==
    CASE kind = "str" -> ""
      [] kind = "bool" -> "false"
      [] kind = "int" -> "0"
      [] kind = "opt" -> "None"

\* a Deserialize that reads skipped fields from the body like any other
FieldValue_reading_skipped(f, t) ==
    IF HasKey(t, f.name)
    THEN (IF ValueOf(t, f.name) = "null" THEN "None" ELSE ValueOf(t, f.name))
    ELSE (IF f.presence = "default" THEN "Default" ELSE "None")

FieldValue(f, t) ==
    IF f.presence = "skip" THEN DefaultOf(f.kind)
    ELSE IF HasKey(t, f.name)
    THEN (IF ValueOf(t, f.name) = "null" THEN "None" ELSE ValueOf(t, f.name))
    ELSE (IF f.presence = "default" THEN "Default" ELSE "None")

Deserialize(schema, t) ==
    IF t = <<>> THEN ParseErr(<<"EOF while parsing a value">>)
    ELSE IF t[1] # "{" THEN ParseErr(<<"expected value">>)
    ELSE IF ~IsObjectText(t) THEN ParseErr(<<"EOF while parsing an object">>)
    ELSE
      LET bad  == {i \in 1..NMembers(t) : BadMember(schema, t, i)}
          miss == {i \in DOMAIN schema : MissingField(schema, t, i)}
      IN  IF bad # {}
          THEN LET i == Min(bad)
               IN  IF \E j \in 1..(i - 1) : KeyAt(t, j) = KeyAt(t, i)
                   THEN ParseErr(<<"duplicate field ", KeyAt(t, i)>>)
                   ELSE ParseErr(<<"invalid type: ", ValAt(t, i), ", expected ",
                                   FieldOf(schema, KeyAt(t, i)).kind>>)
          ELSE IF miss # {}
          THEN ParseErr(<<"missing field ", schema[Min(miss)].name>>)
          ELSE ParseOk([k \in FieldNames(schema) |-> FieldValue(FieldOf(schema, k), t)])

(***************************************************************************)
(* The inputs: clients, arguments, what the transport and the server can   *)
(* answer.                                                                 *)
(***************************************************************************)
MaxParams == 1

\* a host with a forbidden code point (a space) does not parse as a URL
InvalidHosts == {"my space"}
SpaceNames == {"acme", "my space"}


Sids == {<<"AC1">>, <<"SM", "9">>}
ParamPairs == {<<"PageSize", "1">>, <<"FriendlyName", "a b">>}
QueryParams == UNION {[1..n -> ParamPairs] : n \in 0..MaxParams}
PhoneNumbers == {<<"+", "15551234567">>, <<"U+0022", "+", "1", "U+005C">>}
Names == {<<"sub", " ", "one", "&", "co">>}
StatusArgs == {<<"None">>, <<"Some", "suspended">>}
Messages ==
    {[from |-> <<"+", "15551234567">>, to |-> <<"+", "15559876543">>,
      body |-> <<"hi", " ", "a", "=", "b", "%">>]}

NoArgs ==
    [sid |-> <<>>, iso_country |-> <<>>, query |-> <<>>, phone_number |-> <<>>,
     friendly_name |-> <<>>, status |-> <<"None">>,
     message |-> [from |-> <<>>, to |-> <<>>, body |-> <<>>]]

Statuses == {101, 200, 204, 304, 400, 401, 404, 500}

TransportErrors == {<<"error sending request: connection refused">>,
                    <<"error sending request: operation timed out">>}
BodyErrors == {<<"error decoding response body">>}

\* a sample of each JSON token kind
Sample(kind) ==
    CASE kind = "str"    -> "v"
      [] kind = "int"    -> "1"
      [] kind = "float"  -> "0.5"
      [] kind = "bool"   -> "true"
      [] kind = "arr"    -> "[]"
      [] kind = "obj"    -> "{..}"
      [] kind = "objopt" -> "{}"

RECURSIVE MembersOf(_, _)
MembersOf(schema, n) ==
    IF n = 0 THEN <<>>
    ELSE MembersOf(schema, n - 1) \o
         (IF schema[n].presence = "required"
          THEN <<schema[n].name, Sample(schema[n].kind)>> ELSE <<>>)

\* the smallest body the schema accepts, and that body without its last member
ValidBody(schema) == <<"{">> \o MembersOf(schema, Len(schema)) \o <<"}">>
DropLast(body) == SubSeq(body, 1, Len(body) - 3) \o <<"}">>

Bodies ==
    {<<>>, <<"Internal Server Error">>, <<"{", "}">>,
     <<"{", "jwt_token", "1", "refresh_token", "v", "}">>,
     <<"{", "jwt_token", "", "refresh_token", "", "}">>}
    \cup {ValidBody(sch) : sch \in Schemas}
    \cup {DropLast(ValidBody(sch)) : sch \in Schemas}

(***************************************************************************)
(* client.rs: SignalWireClient                                             *)
(***************************************************************************)
\* SignalWireClient::new
new(space_name, project_id, api_key) ==
    [space_name |-> space_name, project_id |-> project_id, api_key |-> api_key]

Host(c) == <<"https://", c.space_name, ".signalwire.com">>

\* Url::parse of a formatted URL: the host is its second token
UrlParses(url) == url[2] \notin InvalidHosts

\* a request built without .basic_auth(..)
Request_without_auth(c, method, url, query, content, body) ==
    [method |-> method, url |-> url, query |-> query,
     user |-> "", pass |-> "",
     content |-> content, body |-> body]

\* RequestBuilder: method, url, query, basic_auth, body
Request(c, method, url, query, content, body) ==
    [method |-> method, url |-> url, query |-> query,
     user |-> c.project_id, pass |-> c.api_key,
     content |-> content, body |-> body]

(***************************************************************************)
(* The body on the wire.  .json(&value) writes serde_json::to_vec(&value), *)
(* .form(&pairs) writes serde_urlencoded::to_string(&pairs).  U+0022 is    *)
(* the quotation mark and U+005C the reverse solidus.                      *)
(***************************************************************************)
\* serde_json: the escape of one character of a string
json_escape(ch) ==
    IF ch = "U+0022" THEN <<"U+005C", "U+0022">>
    ELSE IF ch = "U+005C" THEN <<"U+005C", "U+005C">>
    ELSE <<ch>>

RECURSIVE format_escaped_str_contents(_)
format_escaped_str_contents(text) ==
    IF text = <<>> THEN <<>>
    ELSE json_escape(Head(text)) \o format_escaped_str_contents(Tail(text))

\* a JSON string written without escaping
to_json_string_unescaped(text) == <<"U+0022">> \o text \o <<"U+0022">>

\* serde_json: a string value
to_json_string(text) ==
    <<"U+0022">> \o format_escaped_str_contents(text) \o <<"U+0022">>

\* serde_json::to_vec of a struct with String fields, given as its
\* (field, value) pairs in declaration order
RECURSIVE to_vec_members(_)
to_vec_members(fields) ==
    IF fields = <<>> THEN <<>>
    ELSE to_json_string(<<Head(fields)[1]>>) \o <<":">> \o to_json_string(Head(fields)[2])
         \o (IF Len(fields) > 1 THEN <<",">> ELSE <<>>)
         \o to_vec_members(Tail(fields))

to_vec(fields) == <<"{">> \o to_vec_members(fields) \o <<"}">>

\* form_urlencoded::byte_serialize of one character: a space becomes +,
\* a character outside [A-Za-z0-9*-._] its percent escape
PercentEscapes ==
    << <<"+", "%2B">>, <<"&", "%26">>, <<"=", "%3D">>, <<"%", "%25">> >>

byte_serialize(ch) ==
    IF ch = " " THEN "+"
    ELSE IF \E i \in DOMAIN PercentEscapes : PercentEscapes[i][1] = ch
    THEN PercentEscapes[CHOOSE i \in DOMAIN PercentEscapes : PercentEscapes[i][1] = ch][2]
    ELSE ch

RECURSIVE byte_serialize_text(_)
byte_serialize_text(text) ==
    IF text = <<>> THEN <<>>
    ELSE <<byte_serialize(Head(text))>> \o byte_serialize_text(Tail(text))

\* serde_urlencoded::to_string of a sequence of (name, value) pairs
RECURSIVE serde_urlencoded_to_string(_)
serde_urlencoded_to_string(pairs) ==
    IF pairs = <<>> THEN <<>>
    ELSE byte_serialize_text(<<Head(pairs)[1]>>) \o <<"=">>
         \o byte_serialize_text(Head(pairs)[2])
         \o (IF Len(pairs) > 1 THEN <<"&">> ELSE <<>>)
         \o serde_urlencoded_to_string(Tail(pairs))

\* the bytes of the body of a request
WireBody(req) ==
    CASE req.content = "json" -> to_vec(req.body)
      [] req.content = "form" -> serde_urlencoded_to_string(req.body)
      [] OTHER -> <<>>

\* serde_json::from_str(..).map_err(|e| Unexpected(e.to_string()))
from_str(schema, response_text) ==
    LET p == Deserialize(schema, response_text)
    IN  IF p.ok THEN Ok(p.value) ELSE Unexpected(p.err)

\* serde_json::from_str(..).map_err(|e| Unexpected(format!(
\*     "Failed to parse response: {}. Response was: {}", e, response_text)))
from_str_with_body(schema, response_text) ==
    LET p == Deserialize(schema, response_text)
    IN  IF p.ok THEN Ok(p.value)
        ELSE Unexpected(<<"Failed to parse response: ">> \o p.err
                        \o <<". Response was: ">> \o response_text)

\* what an operation did with a response, and what it returned
Ret(ret, did) == [ret |-> ret, did |-> did]

(***************************************************************************)
(* The code of each operation after response.text() returned the body:     *)
(* the classification of the status and the deserialization.               *)
(***************************************************************************)
get_jwt_text(status, response_text) ==
    IF status = UNAUTHORIZED
    THEN Ret(Unauthorized, <<"classify">>)
    ELSE Ret(from_str(JwtResponse, response_text), <<"classify", "parse">>)

get_phone_numbers_available_text(status, response_text) ==
    IF is_client_error(status) \/ is_server_error(status)
    THEN Ret(Unexpected(response_text), <<"classify">>)
    ELSE Ret(from_str(PhoneNumbersAvailableResponse, response_text),
             <<"classify", "parse">>)

get_phone_numbers_owned_text(status, response_text) ==
    IF status = UNAUTHORIZED
    THEN Ret(Unauthorized, <<"classify">>)
    ELSE IF is_client_error(status) \/ is_server_error(status)
    THEN Ret(Unexpected(response_text), <<"classify">>)
    ELSE Ret(from_str(PhoneNumbersOwnedResponse, response_text),
             <<"classify", "parse">>)

buy_phone_number_text(status, response_text) ==
    IF is_client_error(status) \/ is_server_error(status)
    THEN Ret(Unexpected(response_text), <<"classify">>)
    ELSE Ret(from_str(BuyPhoneNumberResponse, response_text),
             <<"classify", "parse">>)

send_sms_text(status, response_text) ==
    IF status = UNAUTHORIZED
    THEN Ret(Unauthorized, <<"classify">>)
    ELSE IF is_client_error(status) \/ is_server_error(status)
    THEN Ret(Unexpected(response_text), <<"classify">>)
    ELSE Ret(from_str_with_body(SmsResponse, response_text),
             <<"classify", "parse">>)

get_message_status_text(status, response_text, message_sid) ==
    IF status = UNAUTHORIZED
    THEN Ret(Unauthorized, <<"classify">>)
    ELSE IF status = NOT_FOUND
    THEN Ret(NotFound(<<"Message with SID ">> \o message_sid \o <<" not found">>),
             <<"classify">>)
    ELSE IF is_client_error(status) \/ is_server_error(status)
    THEN Ret(Unexpected(response_text), <<"classify">>)
    ELSE Ret(from_str_with_body(SmsResponse, response_text),
             <<"classify", "parse">>)

\* list_subprojects with a special case for 404
list_subprojects_text_404(status, response_text) ==
    IF status = UNAUTHORIZED
    THEN Ret(Unauthorized, <<"classify">>)
    ELSE IF status = NOT_FOUND
    THEN Ret(NotFound(<<"Subprojects not found">>), <<"classify">>)
    ELSE IF is_client_error(status) \/ is_server_error(status)
    THEN Ret(Unexpected(response_text), <<"classify">>)
    ELSE Ret(from_str_with_body(SubprojectsListResponse, response_text),
             <<"classify", "parse">>)

list_subprojects_text(status, response_text) ==
    IF status = UNAUTHORIZED
    THEN Ret(Unauthorized, <<"classify">>)
    ELSE IF is_client_error(status) \/ is_server_error(status)
    THEN Ret(Unexpected(response_text), <<"classify">>)
    ELSE Ret(from_str_with_body(SubprojectsListResponse, response_text),
             <<"classify", "parse">>)

\* get_subproject with a NotFound message that does not name the SID
get_subproject_text_no_sid(status, response_text, subproject_sid) ==
    IF status = UNAUTHORIZED
    THEN Ret(Unauthorized, <<"classify">>)
    ELSE IF status = NOT_FOUND
    THEN Ret(NotFound(<<"Subproject not found">>), <<"classify">>)
    ELSE IF is_client_error(status) \/ is_server_error(status)
    THEN Ret(Unexpected(response_text), <<"classify">>)
    ELSE Ret(from_str_with_body(SubprojectResponse, response_text),
             <<"classify", "parse">>)

get_subproject_text(status, response_text, subproject_sid) ==
    IF status = UNAUTHORIZED
    THEN Ret(Unauthorized, <<"classify">>)
    ELSE IF status = NOT_FOUND
    THEN Ret(NotFound(<<"Subproject with SID ">> \o subproject_sid
                      \o <<" not found">>), <<"classify">>)
    ELSE IF is_client_error(status) \/ is_server_error(status)
    THEN Ret(Unexpected(response_text), <<"classify">>)
    ELSE Ret(from_str_with_body(SubprojectResponse, response_text),
             <<"classify", "parse">>)

create_subproject_text(status, response_text) ==
    IF status = UNAUTHORIZED
    THEN Ret(Unauthorized, <<"classify">>)
    ELSE IF is_client_error(status) \/ is_server_error(status)
    THEN Ret(Unexpected(response_text), <<"classify">>)
    ELSE Ret(from_str_with_body(SubprojectResponse, response_text),
             <<"classify", "parse">>)

update_subproject_text(status, response_text, subproject_sid) ==
    IF status = UNAUTHORIZED
    THEN Ret(Unauthorized, <<"classify">>)
    ELSE IF status = NOT_FOUND
    THEN Ret(NotFound(<<"Subproject with SID ">> \o subproject_sid
                      \o <<" not found">>), <<"classify">>)
    ELSE IF is_client_error(status) \/ is_server_error(status)
    THEN Ret(Unexpected(response_text), <<"classify">>)
    ELSE Ret(from_str_with_body(SubprojectResponse, response_text),
             <<"classify", "parse">>)

get_subproject_phone_numbers_text(status, response_text, subproject_sid) ==
    IF status = UNAUTHORIZED
    THEN Ret(Unauthorized, <<"classify">>)
    ELSE IF status = NOT_FOUND
    THEN Ret(NotFound(<<"Subproject with SID ">> \o subproject_sid
                      \o <<" not found">>), <<"classify">>)
    ELSE IF is_client_error(status) \/ is_server_error(status)
    THEN Ret(Unexpected(response_text), <<"classify">>)
    ELSE Ret(from_str_with_body(SubprojectPhoneNumbersResponse, response_text),
             <<"classify", "parse">>)

(***************************************************************************)
(* delete_subproject classifies the status first and reads the body only   *)
(* for the generic error; it never deserializes.                           *)
(***************************************************************************)
AwaitText == [kind |-> "AwaitText", msg |-> <<>>, value |-> NoValue]

\* delete_subproject that reads the body of every response it does not
\* classify as 401 or 404
delete_subproject_status_reads_body(status, subproject_sid) ==
    IF status = UNAUTHORIZED
    THEN Ret(Unauthorized, <<"classify">>)
    ELSE IF status = NOT_FOUND
    THEN Ret(NotFound(<<"Subproject with SID ">> \o subproject_sid
                      \o <<" not found">>), <<"classify">>)
    ELSE Ret(AwaitText, <<"classify">>)

delete_subproject_status(status, subproject_sid) ==
    IF status = UNAUTHORIZED
    THEN Ret(Unauthorized, <<"classify">>)
    ELSE IF status = NOT_FOUND
    THEN Ret(NotFound(<<"Subproject with SID ">> \o subproject_sid
                      \o <<" not found">>), <<"classify">>)
    ELSE IF is_client_error(status) \/ is_server_error(status)
    THEN Ret(AwaitText, <<"classify">>)
    ELSE Ret(Ok(NoValue), <<"classify">>)

delete_subproject_text(status, response_text) ==
    Ret(Unexpected(response_text), <<>>)

(***************************************************************************)
(* The state machine: an invocation builds its request and sends it, the   *)
(* transport fails or a response arrives, the body is read, the operation  *)
(* returns.                                                                *)
(***************************************************************************)
Operations ==
    {"get_jwt", "get_phone_numbers_available", "get_phone_numbers_owned",
     "buy_phone_number", "send_sms", "get_message_status", "list_subprojects",
     "get_subproject", "create_subproject", "update_subproject",
     "delete_subproject", "get_subproject_phone_numbers"}

\* new accepts any three strings, empty ones included
Clients ==
    {new(sp, "proj-1", "key-1") : sp \in SpaceNames} \cup {new("acme", "", "")}

NoResponse == [status |-> 0, body |-> <<>>, error |-> <<>>]

\* one answer to a request: the error of send(), or the status with the body
\* on the wire and the error of reading it, if any
Answer(status, body, error, read) ==
    [status |-> status, body |-> body, error |-> error, read |-> read]
NoResult == [kind |-> "None", msg |-> <<>>, value |-> NoValue]

Init ==
    /\ client \in Clients
    /\ pc = "idle"
    /\ op = "none"
    /\ args = NoArgs
    /\ phase = 1
    /\ requests = <<>>
    /\ response = NoResponse
    /\ steps = <<>>
    /\ result = NoResult
    /\ variant = "none"
    /\ server = <<>>

\* an invocation that overwrites the client's api_key
Start_clears_key(o, a) ==
    /\ pc \in {"idle", "done"}
    /\ op' = o
    /\ args' = a
    /\ phase' = 1
    /\ response' = NoResponse
    /\ steps' = <<>>
    /\ server' = <<>>
    /\ client' = [client EXCEPT !.api_key = ""]

\* a caller invokes operation o with arguments a
Start(o, a) ==
    /\ pc \in {"idle", "done"}
    /\ op' = o
    /\ args' = a
    /\ phase' = 1
    /\ response' = NoResponse
    /\ steps' = <<>>
    /\ server' = <<>>
    /\ UNCHANGED client

\* send() that sends the request a second time
send_twice(req, sent) ==
    IF UrlParses(req.url)
    THEN /\ requests' = Append(Append(sent, req), req)
         /\ pc' = "send"
         /\ result' = NoResult
    ELSE /\ requests' = sent
         /\ pc' = "done"
         /\ result' = HttpError(<<"builder error">>)

\* .send(): the request goes out after the requests in sent; a builder whose
\* URL did not parse makes send() return the builder's error and sends nothing
send(req, sent) ==
    IF UrlParses(req.url)
    THEN /\ requests' = Append(sent, req)
         /\ pc' = "send"
         /\ result' = NoResult
    ELSE /\ requests' = sent
         /\ pc' = "done"
         /\ result' = HttpError(<<"builder error">>)

\* Url::parse_with_params(..).map_err(|e| Unexpected(e.to_string()))? failed
parse_with_params_failed(sent) ==
    /\ requests' = sent
    /\ pc' = "done"
    /\ result' = Unexpected(<<"invalid domain character">>)

get_jwt ==
    /\ Start("get_jwt", NoArgs)
    /\ send(Request(client, "POST", Host(client) \o <<"/api/relay/rest/jwt">>,
                    <<>>, "raw", <<>>), <<>>)

get_phone_numbers_available ==
    \E iso_country \in {<<"US">>}, query_params \in QueryParams :
      LET url == Host(client) \o <<"/api/laml/2010-04-01/Accounts/", client.project_id,
                                   "/AvailablePhoneNumbers/">> \o iso_country \o <<"/Local">>
      IN  /\ Start("get_phone_numbers_available",
                   [NoArgs EXCEPT !.iso_country = iso_country, !.query = query_params])
          /\ IF UrlParses(url)
             THEN send(Request(client, "GET", url, query_params, "none", <<>>), <<>>)
             ELSE parse_with_params_failed(<<>>)

get_phone_numbers_owned ==
    \E query_params \in QueryParams :
      LET url == Host(client) \o <<"/api/relay/rest/phone_numbers">>
      IN  /\ Start("get_phone_numbers_owned", [NoArgs EXCEPT !.query = query_params])
          /\ IF UrlParses(url)
             THEN send(Request(client, "GET", url, query_params, "none", <<>>), <<>>)
             ELSE parse_with_params_failed(<<>>)

buy_phone_number ==
    \E phone_number \in PhoneNumbers :
      /\ Start("buy_phone_number", [NoArgs EXCEPT !.phone_number = phone_number])
      /\ send(Request(client, "POST", Host(client) \o <<"/api/relay/rest/phone_numbers">>,
                      <<>>, "json", << <<"number", phone_number>> >>), <<>>)

send_sms ==
    \E message \in Messages :
      /\ Start("send_sms", [NoArgs EXCEPT !.message = message])
      /\ send(Request(client, "POST",
                      Host(client) \o <<"/api/laml/2010-04-01/Accounts/",
                                        client.project_id, "/Messages">>,
                      <<>>, "form",
                      << <<"From", message.from>>, <<"To", message.to>>,
                         <<"Body", message.body>> >>), <<>>)

get_message_status ==
    \E message_sid \in Sids :
      /\ Start("get_message_status", [NoArgs EXCEPT !.sid = message_sid])
      /\ send(Request(client, "GET",
                      Host(client) \o <<"/api/laml/2010-04-01/Accounts/",
                                        client.project_id, "/Messages/">> \o message_sid,
                      <<>>, "none", <<>>), <<>>)

list_subprojects ==
    \E query_params \in QueryParams :
      LET url == Host(client) \o <<"/api/laml/2010-04-01/Accounts">>
      IN  /\ Start("list_subprojects", [NoArgs EXCEPT !.query = query_params])
          /\ IF UrlParses(url)
             THEN send(Request(client, "GET", url, query_params, "none", <<>>), <<>>)
             ELSE parse_with_params_failed(<<>>)

\* a get_subproject that asks for the client's own account, not the sid given
get_subproject_request_own_account(c, subproject_sid) ==
    Request(c, "GET", Host(c) \o <<"/api/laml/2010-04-01/Accounts/", c.project_id>>,
            <<>>, "none", <<>>)

\* the request of get_subproject, also sent first by get_subproject_phone_numbers
get_subproject_request(c, subproject_sid) ==
    Request(c, "GET", Host(c) \o <<"/api/laml/2010-04-01/Accounts/">> \o subproject_sid,
            <<>>, "none", <<>>)

get_subproject ==
    \E subproject_sid \in Sids :
      /\ Start("get_subproject", [NoArgs EXCEPT !.sid = subproject_sid])
      /\ send(get_subproject_request(client, subproject_sid), <<>>)

create_subproject ==
    \E friendly_name \in Names :
      /\ Start("create_subproject", [NoArgs EXCEPT !.friendly_name = friendly_name])
      /\ send(Request(client, "POST", Host(client) \o <<"/api/laml/2010-04-01/Accounts">>,
                      <<>>, "form", << <<"FriendlyName", friendly_name>> >>), <<>>)

\* update_subproject that puts Status before FriendlyName
update_subproject_status_first ==
    \E subproject_sid \in Sids, friendly_name \in Names, status \in StatusArgs :
      LET form == (IF status[1] = "Some" THEN << <<"Status", Tail(status)>> >> ELSE <<>>)
                  \o << <<"FriendlyName", friendly_name>> >>
      IN  /\ Start("update_subproject",
                   [NoArgs EXCEPT !.sid = subproject_sid,
                                  !.friendly_name = friendly_name, !.status = status])
          /\ send(Request(client, "POST",
                          Host(client) \o <<"/api/laml/2010-04-01/Accounts/">> \o subproject_sid,
                          <<>>, "form", form), <<>>)

update_subproject ==
    \E subproject_sid \in Sids, friendly_name \in Names, status \in StatusArgs :
      LET form == << <<"FriendlyName", friendly_name>> >> \o
                  (IF status[1] = "Some" THEN << <<"Status", Tail(status)>> >> ELSE <<>>)
      IN  /\ Start("update_subproject",
                   [NoArgs EXCEPT !.sid = subproject_sid,
                                  !.friendly_name = friendly_name, !.status = status])
          /\ send(Request(client, "POST",
                          Host(client) \o <<"/api/laml/2010-04-01/Accounts/">> \o subproject_sid,
                          <<>>, "form", form), <<>>)

delete_subproject ==
    \E subproject_sid \in Sids :
      /\ Start("delete_subproject", [NoArgs EXCEPT !.sid = subproject_sid])
      /\ send(Request(client, "DELETE",
                      Host(client) \o <<"/api/laml/2010-04-01/Accounts/">> \o subproject_sid,
                      <<>>, "none", <<>>), <<>>)

\* get_subproject_phone_numbers begins with self.get_subproject(sid).await?
get_subproject_phone_numbers ==
    \E subproject_sid \in Sids, query_params \in QueryParams :
      /\ Start("get_subproject_phone_numbers",
               [NoArgs EXCEPT !.sid = subproject_sid, !.query = query_params])
      /\ send(get_subproject_request(client, subproject_sid), <<>>)

\* the code that runs on the body of the response, by operation
AfterText(o, ph, status, response_text, a) ==
    CASE o = "get_jwt" -> get_jwt_text(status, response_text)
      [] o = "get_phone_numbers_available" ->
            get_phone_numbers_available_text(status, response_text)
      [] o = "get_phone_numbers_owned" ->
            get_phone_numbers_owned_text(status, response_text)
      [] o = "buy_phone_number" -> buy_phone_number_text(status, response_text)
      [] o = "send_sms" -> send_sms_text(status, response_text)
      [] o = "get_message_status" ->
            get_message_status_text(status, response_text, a.sid)
      [] o = "list_subprojects" -> list_subprojects_text(status, response_text)
      [] o = "get_subproject" -> get_subproject_text(status, response_text, a.sid)
      [] o = "create_subproject" -> create_subproject_text(status, response_text)
      [] o = "update_subproject" ->
            update_subproject_text(status, response_text, a.sid)
      [] o = "delete_subproject" -> delete_subproject_text(status, response_text)
      [] o = "get_subproject_phone_numbers" ->
            IF ph = 1
            THEN get_subproject_text(status, response_text, a.sid)
            ELSE get_subproject_phone_numbers_text(status, response_text, a.sid)

\* a transport failure reported as Unexpected
TransportFails_as_unexpected ==
    /\ pc = "send"
    /\ \E e \in TransportErrors :
         /\ response' = [NoResponse EXCEPT !.error = e]
         /\ result' = Unexpected(e)
         /\ server' = Append(server, Answer(0, <<>>, e, <<>>))
    /\ pc' = "done"
    /\ UNCHANGED <<client, op, args, phase, requests, steps, variant>>

\* send().await returns Err: .map_err(|e| HttpError(e.to_string()))?
TransportFails ==
    /\ pc = "send"
    /\ \E e \in TransportErrors :
         /\ response' = [NoResponse EXCEPT !.error = e]
         /\ result' = HttpError(e)
         /\ server' = Append(server, Answer(0, <<>>, e, <<>>))
    /\ pc' = "done"
    /\ UNCHANGED <<client, op, args, phase, requests, steps, variant>>

\* send().await returns a response; delete_subproject classifies its status at
\* once, every other operation first awaits response.text()
Respond ==
    /\ pc = "send"
    /\ \E status \in Statuses, body \in Bodies :
         /\ response' = [status |-> status, body |-> body, error |-> <<>>]
         /\ server' = Append(server, Answer(status, body, <<>>, <<>>))
         /\ IF op = "delete_subproject"
            THEN LET r == delete_subproject_status(status, args.sid)
                 IN  /\ steps' = r.did
                     /\ IF r.ret = AwaitText
                        THEN pc' = "text" /\ UNCHANGED result
                        ELSE pc' = "done" /\ result' = r.ret
            ELSE /\ steps' = <<>>
                 /\ pc' = "text"
                 /\ UNCHANGED result
    /\ UNCHANGED <<client, op, args, phase, requests, variant>>

\* response.text().await returns Err: .map_err(|e| Unexpected(e.to_string()))?
TextFails ==
    /\ pc = "text"
    /\ \E e \in BodyErrors :
         /\ result' = Unexpected(e)
         /\ server' = [server EXCEPT ![Len(server)].read = e]
    /\ steps' = Append(steps, "text_failed")
    /\ pc' = "done"
    /\ UNCHANGED <<client, op, args, phase, requests, response, variant>>

\* a check whose result is ignored
CheckPassed_whatever_it_returned ==
    /\ op = "get_subproject_phone_numbers"
    /\ phase = 1

\* the existence check of get_subproject_phone_numbers returned Ok
CheckPassed ==
    /\ op = "get_subproject_phone_numbers"
    /\ phase = 1
    /\ AfterText(op, phase, response.status, response.body, args).ret.kind = "Ok"

\* response.text().await returns the body and the operation runs to its return
TextOk ==
    /\ pc = "text"
    /\ ~CheckPassed
    /\ LET r == AfterText(op, phase, response.status, response.body, args)
       IN  /\ result' = r.ret
           /\ steps' = steps \o <<"text">> \o r.did
    /\ pc' = "done"
    /\ UNCHANGED <<client, op, args, phase, requests, response, variant, server>>

\* get_subproject_phone_numbers after its check: the listing request
get_subproject_phone_numbers_listing ==
    /\ pc = "text"
    /\ CheckPassed
    /\ LET url == Host(client) \o <<"/api/laml/2010-04-01/Accounts/">> \o args.sid
                  \o <<"/IncomingPhoneNumbers">>
       IN  IF UrlParses(url)
           THEN send(Request(client, "GET", url, args.query, "none", <<>>), requests)
           ELSE parse_with_params_failed(requests)
    /\ phase' = 2
    /\ response' = NoResponse
    /\ steps' = <<>>
    /\ UNCHANGED <<client, op, args, variant, server>>

\* the caller awaits the future of the async fn itself
await(future) ==
    /\ variant' = "async"
    /\ future

\* the thread unwinds with a panic: no value is returned
Panic(msg) == [kind |-> "Panic", msg |-> msg, value |-> NoValue]

\* Runtime::new() returned Err (the OS refused the threads or the descriptors
\* of a new runtime), or the caller is itself running inside a runtime
PanicCauses ==
    {<<"called Result::unwrap() on an Err value">>,
     <<"Cannot start a runtime from within a runtime">>}

\* tokio::runtime::Runtime::new().unwrap().block_on(self.o(..)): the future of
\* the async fn runs to its end on a new runtime; unwrap() or block_on panics
\* before the future is polled when no runtime can be had
block_on(o, future) ==
    \/ /\ variant' = "blocking"
       /\ future
    \/ /\ pc \in {"idle", "done"}
       /\ variant' = "blocking"
       /\ op' = o
       /\ pc' = "panicked"
       /\ \E cause \in PanicCauses : result' = Panic(cause)
       /\ args' = NoArgs
       /\ phase' = 1
       /\ requests' = <<>>
       /\ response' = NoResponse
       /\ steps' = <<>>
       /\ server' = <<>>
       /\ UNCHANGED client

get_jwt_blocking == block_on("get_jwt", get_jwt)
get_phone_numbers_available_blocking ==
    block_on("get_phone_numbers_available", get_phone_numbers_available)
get_phone_numbers_owned_blocking ==
    block_on("get_phone_numbers_owned", get_phone_numbers_owned)
buy_phone_number_blocking == block_on("buy_phone_number", buy_phone_number)
send_sms_blocking == block_on("send_sms", send_sms)
get_message_status_blocking == block_on("get_message_status", get_message_status)
list_subprojects_blocking == block_on("list_subprojects", list_subprojects)
get_subproject_blocking == block_on("get_subproject", get_subproject)
create_subproject_blocking == block_on("create_subproject", create_subproject)
update_subproject_blocking == block_on("update_subproject", update_subproject)
delete_subproject_blocking == block_on("delete_subproject", delete_subproject)
get_subproject_phone_numbers_blocking ==
    block_on("get_subproject_phone_numbers", get_subproject_phone_numbers)

Next ==
    \/ await(get_jwt)
    \/ await(get_phone_numbers_available)
    \/ await(get_phone_numbers_owned)
    \/ await(buy_phone_number)
    \/ await(send_sms)
    \/ await(get_message_status)
    \/ await(list_subprojects)
    \/ await(get_subproject)
    \/ await(create_subproject)
    \/ await(update_subproject)
    \/ await(delete_subproject)
    \/ await(get_subproject_phone_numbers)
    \/ get_jwt_blocking
    \/ get_phone_numbers_available_blocking
    \/ get_phone_numbers_owned_blocking
    \/ buy_phone_number_blocking
    \/ send_sms_blocking
    \/ get_message_status_blocking
    \/ list_subprojects_blocking
    \/ get_subproject_blocking
    \/ create_subproject_blocking
    \/ update_subproject_blocking
    \/ delete_subproject_blocking
    \/ get_subproject_phone_numbers_blocking
    \/ TransportFails
    \/ Respond
    \/ TextFails
    \/ TextOk
    \/ get_subproject_phone_numbers_listing

Spec == Init /\ [][Next]_vars

TypeOK ==
    /\ pc \in {"idle", "send", "text", "done", "panicked"}
    /\ variant \in {"none", "async", "blocking"}
    /\ op \in Operations \cup {"none"}
    /\ phase \in {1, 2}
    /\ result.kind \in ErrorKinds \cup {"Ok", "None", "Panic"}

(***************************************************************************)
(* Properties                                                              *)
(***************************************************************************)
Returned == pc = "done"
GotResponse == response.status # 0
Did(step) == \E i \in DOMAIN steps : steps[i] = step
BodyRead == ~Did("text_failed")
ErrorStatus(status) == is_client_error(status) \/ is_server_error(status)

\* the operations that address one resource by identifier
IdentifierOps ==
    {"get_message_status", "get_subproject", "update_subproject", "delete_subproject"}

\* the response type the operation deserializes the last response into
SchemaOf(o, ph) ==
    CASE o = "get_jwt" -> JwtResponse
      [] o = "get_phone_numbers_available" -> PhoneNumbersAvailableResponse
      [] o = "get_phone_numbers_owned" -> PhoneNumbersOwnedResponse
      [] o = "buy_phone_number" -> BuyPhoneNumberResponse
      [] o \in {"send_sms", "get_message_status"} -> SmsResponse
      [] o = "list_subprojects" -> SubprojectsListResponse
      [] o \in {"get_subproject", "create_subproject", "update_subproject"} ->
            SubprojectResponse
      [] o = "get_subproject_phone_numbers" ->
            IF ph = 1 THEN SubprojectResponse ELSE SubprojectPhoneNumbersResponse
      [] OTHER -> <<>>

\* C1: whenever an operation has returned on a response with status 401 whose
\* body was delivered (any body, the empty one included), it returned
\* Unauthorized.
C1_Unauthorized ==
    (Returned /\ response.status = UNAUTHORIZED /\ BodyRead)
        => result = Unauthorized

\* C2: whenever get_message_status, get_subproject, update_subproject or
\* delete_subproject has returned on a response with status 404 (any body
\* delivered), it returned NotFound and the message contains the identifier
\* the caller passed.
C2_NotFoundNamesIdentifier ==
    (Returned /\ op \in IdentifierOps /\ response.status = NOT_FOUND /\ BodyRead)
        => /\ result.kind = "NotFound"
           /\ Contains(result.msg, args.sid)

\* an identifier-addressed operation returned NotFound on a 404 that carried
\* a non-empty body, for a two-token identifier
C2_Witness ==
    /\ Returned
    /\ op = "update_subproject"
    /\ response.status = NOT_FOUND
    /\ response.body # <<>>
    /\ args.sid = <<"SM", "9">>
    /\ result.kind = "NotFound"

\* C3: whenever an operation has returned on a response with a 4xx or 5xx
\* status other than 401, and other than 404 on an operation that names a
\* resource by identifier, it returned Unexpected with exactly the body text.
C3_UnexpectedCarriesBody ==
    (/\ Returned /\ BodyRead
     /\ ErrorStatus(response.status)
     /\ response.status # UNAUTHORIZED
     /\ ~(response.status = NOT_FOUND
          /\ op \in IdentifierOps \cup {"get_subproject_phone_numbers"}))
        => result = Unexpected(response.body)

\* C4: whenever an operation has deserialized the body of a 2xx response and
\* the body does not deserialize into its response type, it returned
\* Unexpected with a message containing both the body and the parser's error.
C4_ParseFailureCarriesBodyAndError ==
    (/\ Returned
     /\ Did("parse")
     /\ is_success(response.status)
     /\ ~Deserialize(SchemaOf(op, phase), response.body).ok)
        => /\ result.kind = "Unexpected"
           /\ Contains(result.msg, response.body)
           /\ Contains(result.msg, Deserialize(SchemaOf(op, phase), response.body).err)

\* C5: a response with a 4xx or 5xx status is never deserialized and never
\* yields a success value.
C5_ErrorStatusNeverParsed ==
    (GotResponse /\ ErrorStatus(response.status))
        => /\ ~Did("parse")
           /\ ~(Returned /\ result.kind = "Ok")

\* C6: an operation returns a success value only on a status in 200..299.
C6_SuccessOnly2xx ==
    (Returned /\ result.kind = "Ok") => is_success(response.status)

\* C7: on a 401 response the operation returns Unauthorized even when reading
\* the response body fails.
C7_ReadFailureKeepsUnauthorized ==
    (Returned /\ response.status = UNAUTHORIZED /\ ~BodyRead)
        => result = Unauthorized

\* C8 as stated: an invocation that has returned, its endpoint URL being
\* well-formed, has sent exactly one request.
C8_ExactlyOneRequest ==
    (Returned /\ client.space_name \notin InvalidHosts) => Len(requests) = 1

\* C8 amended: an invocation sends at most one request, and exactly one once
\* it has returned with a well-formed endpoint URL, except
\* get_subproject_phone_numbers, which sends the get_subproject request first
\* and one listing request after that check returned success.
C8_RequestsPerInvocation ==
    /\ op # "get_subproject_phone_numbers" => Len(requests) <= 1
    /\ Len(requests) <= 2
    /\ (Returned /\ client.space_name \notin InvalidHosts) => Len(requests) >= 1
    /\ Len(requests) = 2 =>
          /\ phase = 2
          /\ requests[1] = get_subproject_request(client, args.sid)
          /\ requests[2] # requests[1]

\* get_subproject_phone_numbers returned after its second request
C8_Witness ==
    /\ Returned
    /\ op = "get_subproject_phone_numbers"
    /\ Len(requests) = 2
    /\ result.kind = "Ok"

\* C9: whenever send() failed at the transport level, the operation returned
\* HttpError with the transport's description and neither classified a
\* status nor read or parsed a body.
C9_TransportFailureIsHttpError ==
    response.error # <<>>
        => /\ Returned
           /\ result = HttpError(response.error)
           /\ steps = <<>>

\* the listing request of get_subproject_phone_numbers failed in the transport
C9_Witness ==
    /\ response.error # <<>>
    /\ op = "get_subproject_phone_numbers"
    /\ phase = 2
    /\ result.kind = "HttpError"

\* C10: once the last request of a running invocation has failed in the
\* transport or received a 4xx/5xx status, the invocation sends no further
\* request and its next step returns an error.
C10_NoRetryReturnsError ==
    [][(pc = "text" /\ ErrorStatus(response.status))
          => /\ requests' = requests
             /\ pc' = "done"
             /\ result'.kind \in ErrorKinds]_vars

\* the part of C10 about retries alone: a running invocation sends a further
\* request only as the listing request of get_subproject_phone_numbers, after
\* its check was answered with a status that is no 4xx/5xx
NoFurtherRequestAfterFailure ==
    [][(pc \in {"send", "text"} /\ requests' # requests)
          => /\ pc = "text"
             /\ op = "get_subproject_phone_numbers"
             /\ phase = 1
             /\ ~ErrorStatus(response.status)
             /\ response.error = <<>>]_vars

\* C11: whenever delete_subproject has returned on a 2xx response, whatever
\* its body, it returned the unit value and neither read nor deserialized
\* the body.
C11_DeleteReturnsUnit ==
    (Returned /\ op = "delete_subproject" /\ is_success(response.status))
        => /\ result = Ok(NoValue)
           /\ steps = <<"classify">>

\* delete_subproject returned Ok on a 200 whose body is not JSON
C11_Witness ==
    /\ Returned
    /\ op = "delete_subproject"
    /\ response.status = 200
    /\ response.body = <<"Internal Server Error">>
    /\ result = Ok(NoValue)

\* C12: no step of any operation changes space_name, project_id or api_key
\* of the client.
C12_ClientUnchanged == [][client' = client]_vars

\* an operation has returned an error and the client still holds the values
\* given to new
C12_Witness ==
    /\ Returned
    /\ op = "update_subproject"
    /\ result.kind = "Unexpected"
    /\ client = new("acme", "proj-1", "key-1")

\* C16: every request sent carries basic authentication with the client's
\* project_id as username and api_key as password.
C16_BasicAuthOnEveryRequest ==
    \A i \in DOMAIN requests :
        /\ requests[i].user = client.project_id
        /\ requests[i].pass = client.api_key

\* both requests of get_subproject_phone_numbers were sent with credentials
C16_Witness ==
    /\ Len(requests) = 2
    /\ requests[2].user = "proj-1"
    /\ requests[2].pass = "key-1"
    /\ requests[2].method = "GET"

\* C18: whenever an operation has returned for a client whose space name
\* yields no well-formed URL, it returned Unexpected and sent no request.
C18_BadUrlIsUnexpected ==
    (Returned /\ client.space_name \in InvalidHosts)
        => /\ result.kind = "Unexpected"
           /\ requests = <<>>

\* the listing, search and creation operations that name no single resource
ListingOps ==
    {"get_phone_numbers_available", "get_phone_numbers_owned", "list_subprojects",
     "buy_phone_number", "send_sms", "create_subproject"}

\* C20 as stated: a 404 on a listing, search or creation operation, the
\* listing of a subproject's phone numbers included, returns Unexpected with
\* the raw body.
C20_No404SpecialCase ==
    (/\ Returned /\ BodyRead
     /\ response.status = NOT_FOUND
     /\ op \in ListingOps \cup {"get_subproject_phone_numbers"})
        => result = Unexpected(response.body)

\* C20 amended: a 404 on get_phone_numbers_available, get_phone_numbers_owned,
\* list_subprojects, buy_phone_number, send_sms or create_subproject returns
\* Unexpected with the raw body; a 404 on either request of
\* get_subproject_phone_numbers returns NotFound naming the subproject SID.
C20_404OnListingOps ==
    (Returned /\ BodyRead /\ response.status = NOT_FOUND)
        => /\ op \in ListingOps => result = Unexpected(response.body)
           /\ op = "get_subproject_phone_numbers"
                 => /\ result.kind = "NotFound"
                    /\ Contains(result.msg, args.sid)

\* list_subprojects returned Unexpected with the body of a 404
C20_Witness ==
    /\ Returned
    /\ op = "list_subprojects"
    /\ response.status = NOT_FOUND
    /\ response.body = <<"Internal Server Error">>
    /\ result = Unexpected(response.body)

\* C19: a client that has sent a request holds a non-empty space name,
\* project identifier and secret key (a consequence of the claim that no
\* client with an empty credential can be constructed or used).
C19_CredentialsNonEmpty ==
    requests # <<>>
        => /\ client.space_name # ""
           /\ client.project_id # ""
           /\ client.api_key # ""

\* C17: no invocation, async or blocking, ends in a panic, and an invocation
\* that has returned returned success or one of the four error kinds.
C17_ReturnsNeverPanics ==
    /\ pc # "panicked"
    /\ Returned => result.kind \in {"Ok"} \cup ErrorKinds

(***************************************************************************)
(* The async fn of an operation as a function of the server's answers      *)
(***************************************************************************)
\* the request the async fn of operation o builds first
FirstRequest(c, o, a) ==
    CASE o = "get_jwt" ->
            Request(c, "POST", Host(c) \o <<"/api/relay/rest/jwt">>, <<>>, "raw", <<>>)
      [] o = "get_phone_numbers_available" ->
            Request(c, "GET",
                    Host(c) \o <<"/api/laml/2010-04-01/Accounts/", c.project_id,
                                 "/AvailablePhoneNumbers/">> \o a.iso_country \o <<"/Local">>,
                    a.query, "none", <<>>)
      [] o = "get_phone_numbers_owned" ->
            Request(c, "GET", Host(c) \o <<"/api/relay/rest/phone_numbers">>,
                    a.query, "none", <<>>)
      [] o = "buy_phone_number" ->
            Request(c, "POST", Host(c) \o <<"/api/relay/rest/phone_numbers">>,
                    <<>>, "json", << <<"number", a.phone_number>> >>)
      [] o = "send_sms" ->
            Request(c, "POST",
                    Host(c) \o <<"/api/laml/2010-04-01/Accounts/", c.project_id, "/Messages">>,
                    <<>>, "form",
                    << <<"From", a.message.from>>, <<"To", a.message.to>>,
                       <<"Body", a.message.body>> >>)
      [] o = "get_message_status" ->
            Request(c, "GET",
                    Host(c) \o <<"/api/laml/2010-04-01/Accounts/", c.project_id,
                                 "/Messages/">> \o a.sid,
                    <<>>, "none", <<>>)
      [] o = "list_subprojects" ->
            Request(c, "GET", Host(c) \o <<"/api/laml/2010-04-01/Accounts">>,
                    a.query, "none", <<>>)
      [] o \in {"get_subproject", "get_subproject_phone_numbers"} ->
            get_subproject_request(c, a.sid)
      [] o = "create_subproject" ->
            Request(c, "POST", Host(c) \o <<"/api/laml/2010-04-01/Accounts">>,
                    <<>>, "form", << <<"FriendlyName", a.friendly_name>> >>)
      [] o = "update_subproject" ->
            Request(c, "POST", Host(c) \o <<"/api/laml/2010-04-01/Accounts/">> \o a.sid,
                    <<>>, "form",
                    << <<"FriendlyName", a.friendly_name>> >> \o
                    (IF a.status[1] = "Some"
                     THEN << <<"Status", Tail(a.status)>> >> ELSE <<>>))
      [] o = "delete_subproject" ->
            Request(c, "DELETE", Host(c) \o <<"/api/laml/2010-04-01/Accounts/">> \o a.sid,
                    <<>>, "none", <<>>)

\* the listing request of get_subproject_phone_numbers
ListingRequest(c, a) ==
    Request(c, "GET",
            Host(c) \o <<"/api/laml/2010-04-01/Accounts/">> \o a.sid
                    \o <<"/IncomingPhoneNumbers">>,
            a.query, "none", <<>>)

\* the operations that parse their URL themselves, with Url::parse_with_params
ParsesUrl == {"get_phone_numbers_available", "get_phone_numbers_owned", "list_subprojects"}

\* what the async fn returns when its first URL does not parse
UrlError(o) ==
    IF o \in ParsesUrl
    THEN Unexpected(<<"invalid domain character">>)
    ELSE HttpError(<<"builder error">>)

\* what the async fn makes of one answer to the request of phase ph
Exchange(o, ph, a, answer) ==
    IF answer.error # <<>> THEN HttpError(answer.error)
    ELSE IF o = "delete_subproject"
            /\ delete_subproject_status(answer.status, a.sid).ret # AwaitText
    THEN delete_subproject_status(answer.status, a.sid).ret
    ELSE IF answer.read # <<>> THEN Unexpected(answer.read)
    ELSE AfterText(o, ph, answer.status, answer.body, a).ret

\* the requests the async fn of o sends and the result it returns on client c
\* with arguments a when the server gives the answers in order; the result is
\* NoResult while an answer is still awaited
Outcome(c, o, a, answers) ==
    LET first == FirstRequest(c, o, a)
        listing == ListingRequest(c, a)
    IN  IF ~UrlParses(first.url)
        THEN [requests |-> <<>>, result |-> UrlError(o)]
        ELSE IF answers = <<>>
        THEN [requests |-> <<first>>, result |-> NoResult]
        ELSE IF o # "get_subproject_phone_numbers"
                \/ Exchange(o, 1, a, answers[1]).kind # "Ok"
        THEN [requests |-> <<first>>, result |-> Exchange(o, 1, a, answers[1])]
        ELSE IF ~UrlParses(listing.url)
        THEN [requests |-> <<first>>,
              result |-> Unexpected(<<"invalid domain character">>)]
        ELSE IF Len(answers) < 2
        THEN [requests |-> <<first, listing>>, result |-> NoResult]
        ELSE [requests |-> <<first, listing>>,
              result |-> Exchange(o, 2, a, answers[2])]

\* an invocation has ended: it returned, or its thread unwound
Ended == pc \in {"done", "panicked"}

\* C13: a blocking invocation that has ended has returned, and sent the
\* requests and returned the result of the operation's async fn for the same
\* client, arguments and answers of the server.
C13_BlockingSameAsAsync ==
    (Ended /\ variant = "blocking")
        => /\ Returned
           /\ requests = Outcome(client, op, args, server).requests
           /\ result = Outcome(client, op, args, server).result

\* every invocation that has returned, awaited or blocking, sent the requests
\* and returned the result that Outcome computes from the server's answers
ReturnedIsOutcome ==
    Returned
        => /\ requests = Outcome(client, op, args, server).requests
           /\ result = Outcome(client, op, args, server).result

(***************************************************************************)
(* types.rs: MessageStatus and SmsResponse::get_status.                    *)
(* Here a string is the sequence of its characters; U+0130 and U+0307 are  *)
(* the capital I with dot above and the combining dot above.               *)
(***************************************************************************)
UpperChars ==
    <<"A", "B", "C", "D", "E", "F", "G", "H", "I", "J", "K", "L", "M",
      "N", "O", "P", "Q", "R", "S", "T", "U", "V", "W", "X", "Y", "Z">>
LowerChars ==
    <<"a", "b", "c", "d", "e", "f", "g", "h", "i", "j", "k", "l", "m",
      "n", "o", "p", "q", "r", "s", "t", "u", "v", "w", "x", "y", "z">>

\* the status literals of the match in From<&str> for MessageStatus and of Display
QUEUED == <<"q", "u", "e", "u", "e", "d">>
SENDING == <<"s", "e", "n", "d", "i", "n", "g">>
SENT == <<"s", "e", "n", "t">>
DELIVERED == <<"d", "e", "l", "i", "v", "e", "r", "e", "d">>
FAILED == <<"f", "a", "i", "l", "e", "d">>
UNDELIVERED == <<"u", "n", "d", "e", "l", "i", "v", "e", "r", "e", "d">>
UNKNOWN == <<"u", "n", "k", "n", "o", "w", "n">>

\* char::to_lowercase: one character may become several
char_to_lowercase(ch) ==
    IF \E i \in DOMAIN UpperChars : UpperChars[i] = ch
    THEN <<LowerChars[CHOOSE i \in DOMAIN UpperChars : UpperChars[i] = ch]>>
    ELSE IF ch = "U+0130" THEN <<"i", "U+0307">>
    ELSE <<ch>>

\* str::to_lowercase
RECURSIVE to_lowercase(_)
to_lowercase(str) ==
    IF str = <<>> THEN <<>>
    ELSE char_to_lowercase(Head(str)) \o to_lowercase(Tail(str))

\* From<&str> for MessageStatus without to_lowercase
MessageStatus_from_case_sensitive(status) ==
    CASE status = QUEUED -> "Queued"
      [] status = SENDING -> "Sending"
      [] status = SENT -> "Sent"
      [] status = DELIVERED -> "Delivered"
      [] status = FAILED -> "Failed"
      [] status = UNDELIVERED -> "Undelivered"
      [] OTHER -> "Unknown"

\* impl From<&str> for MessageStatus
MessageStatus_from(status) ==
    LET lowered == to_lowercase(status)
    IN  CASE lowered = QUEUED -> "Queued"
          [] lowered = SENDING -> "Sending"
          [] lowered = SENT -> "Sent"
          [] lowered = DELIVERED -> "Delivered"
          [] lowered = FAILED -> "Failed"
          [] lowered = UNDELIVERED -> "Undelivered"
          [] OTHER -> "Unknown"

\* SmsResponse::get_status
get_status(self) == MessageStatus_from(self.status)

\* every spelling of str in upper and lower case ASCII letters
RECURSIVE CaseMixes(_)
CaseMixes(str) ==
    IF str = <<>> THEN {<<>>}
    ELSE LET i == CHOOSE j \in DOMAIN LowerChars : LowerChars[j] = Head(str)
         IN  {<<ch>> \o rest : ch \in {LowerChars[i], UpperChars[i]},
                               rest \in CaseMixes(Tail(str))}

StatusLiterals == {QUEUED, SENDING, SENT, DELIVERED, FAILED, UNDELIVERED}

\* the status strings tried: the literals in every mix of case, and strings
\* that are none of them
OtherStatuses ==
    {<<>>, UNKNOWN, <<"a", "c", "c", "e", "p", "t", "e", "d">>, <<"s", "e", "n">>,
     <<"s", "e", "n", "t", " ">>, <<" ", "s", "e", "n", "t">>,
     <<"s", "e", "n", "t", "s", "e", "n", "t">>,
     <<"S", "E", "N", "D", "U+0130", "N", "G">>,
     <<"d", "e", "l", "i", "v", "e", "r", "e", "d", ".">>}
StatusTexts ==
    UNION {CaseMixes(lit) : lit \in StatusLiterals} \cup CaseMixes(UNKNOWN)
    \cup OtherStatuses

\* an SmsResponse whose status field is status
SmsWithStatus(status) == [sid |-> <<"S", "M", "1">>, status |-> status]

InitMessageStatus ==
    /\ client = new("acme", "proj-1", "key-1")
    /\ pc = "idle"
    /\ op = "none"
    /\ args \in {SmsWithStatus(status) : status \in StatusTexts}
    /\ phase = 1
    /\ requests = <<>>
    /\ response = NoResponse
    /\ steps = <<>>
    /\ result = NoResult
    /\ variant = "none"
    /\ server = <<>>

\* MessageStatus::from(sms.status.as_str())
MessageStatus_from_call ==
    /\ pc = "idle"
    /\ op' = "MessageStatus::from"
    /\ result' = Ok(MessageStatus_from(args.status))
    /\ pc' = "done"
    /\ UNCHANGED <<client, args, phase, requests, response, steps, variant, server>>

\* sms.get_status()
get_status_call ==
    /\ pc = "idle"
    /\ op' = "SmsResponse::get_status"
    /\ result' = Ok(get_status(args))
    /\ pc' = "done"
    /\ UNCHANGED <<client, args, phase, requests, response, steps, variant, server>>

\* a Display that writes Undelivered in two words
MessageStatus_to_string_two_words(self) ==
    CASE self = "Queued" -> QUEUED
      [] self = "Sending" -> SENDING
      [] self = "Sent" -> SENT
      [] self = "Delivered" -> DELIVERED
      [] self = "Failed" -> FAILED
      [] self = "Undelivered" -> <<"n", "o", "t", " ">> \o DELIVERED
      [] self = "Unknown" -> UNKNOWN

\* impl Display for MessageStatus, through ToString::to_string
MessageStatus_to_string(self) ==
    CASE self = "Queued" -> QUEUED
      [] self = "Sending" -> SENDING
      [] self = "Sent" -> SENT
      [] self = "Delivered" -> DELIVERED
      [] self = "Failed" -> FAILED
      [] self = "Undelivered" -> UNDELIVERED
      [] self = "Unknown" -> UNKNOWN

\* v.to_string() on the variant MessageStatus::from returned
MessageStatus_to_string_call ==
    /\ pc = "done"
    /\ op = "MessageStatus::from"
    /\ op' = "MessageStatus::to_string"
    /\ args' = [variant |-> result.value]
    /\ result' = Ok(MessageStatus_to_string(result.value))
    /\ UNCHANGED <<client, pc, phase, requests, response, steps, variant, server>>

\* MessageStatus::from(v.to_string().as_str())
MessageStatus_from_to_string_call ==
    /\ pc = "done"
    /\ op = "MessageStatus::to_string"
    /\ op' = "MessageStatus::from(to_string)"
    /\ args' = [variant |-> args.variant, status |-> result.value]
    /\ result' = Ok(MessageStatus_from(result.value))
    /\ UNCHANGED <<client, pc, phase, requests, response, steps, variant, server>>

NextMessageStatus ==
    \/ MessageStatus_from_call
    \/ get_status_call
    \/ MessageStatus_to_string_call
    \/ MessageStatus_from_to_string_call

SpecMessageStatus == InitMessageStatus /\ [][NextMessageStatus]_vars

\* str is a spelling of lit in some mix of upper and lower case
IsCaseMixOf(str, lit) ==
    /\ Len(str) = Len(lit)
    /\ \A i \in DOMAIN lit :
         \E j \in DOMAIN LowerChars :
            /\ LowerChars[j] = lit[i]
            /\ str[i] \in {LowerChars[j], UpperChars[j]}

\* the variant named by each literal
VariantOf(lit) ==
    CASE lit = QUEUED -> "Queued"
      [] lit = SENDING -> "Sending"
      [] lit = SENT -> "Sent"
      [] lit = DELIVERED -> "Delivered"
      [] lit = FAILED -> "Failed"
      [] lit = UNDELIVERED -> "Undelivered"

\* C14: MessageStatus::from and SmsResponse::get_status always return a
\* variant: the matching one when the status is one of the six literals in
\* any mix of upper and lower case, and Unknown for every other string.
C14_StatusClassification ==
    (Returned /\ op \in {"MessageStatus::from", "SmsResponse::get_status"})
        => /\ result.kind = "Ok"
           /\ \A lit \in StatusLiterals :
                IsCaseMixOf(args.status, lit) => result.value = VariantOf(lit)
           /\ (\A lit \in StatusLiterals : ~IsCaseMixOf(args.status, lit))
                => result.value = "Unknown"

\* get_status classified the status "DeLiVeReD" of a record as Delivered
C14_Witness ==
    /\ Returned
    /\ op = "SmsResponse::get_status"
    /\ args.status = <<"D", "e", "L", "i", "V", "e", "R", "e", "D">>
    /\ result = Ok("Delivered")

(***************************************************************************)
(* types.rs: the query-parameter builders.  A builder is its params, the   *)
(* sequence of (name, value) pairs; args is the history of the setter      *)
(* calls chained so far.                                                   *)
(***************************************************************************)
MaxCalls == 2

StrValues == {"415", ""}

\* bool::to_string
bool_to_string(b) == IF b THEN "true" ELSE "false"

\* the record of one setter call
Call(setter, kind, value) == [setter |-> setter, kind |-> kind, value |-> value]

InitBuilders ==
    /\ client = new("acme", "proj-1", "key-1")
    /\ pc = "idle"
    /\ op = "none"
    /\ args = <<>>
    /\ phase = 1
    /\ requests = <<>>
    /\ response = NoResponse
    /\ steps = <<>>
    /\ result = NoResult
    /\ variant = "none"
    /\ server = <<>>

\* T::new(): Self::default(), an empty params
builder_new(type) ==
    /\ pc = "idle"
    /\ op' = type
    /\ args' = <<>>
    /\ result' = Ok(<<>>)
    /\ pc' = "building"
    /\ UNCHANGED <<client, phase, requests, response, steps, variant, server>>

\* a setter of builder type: self.params.push(pair); self
builder_push(type, call, pair) ==
    /\ pc = "building"
    /\ op = type
    /\ Len(args) < MaxCalls
    /\ args' = Append(args, call)
    /\ result' = Ok(Append(result.value, pair))
    /\ UNCHANGED <<client, pc, op, phase, requests, response, steps, variant, server>>

\* T::build(self): self.params
builder_build(type) ==
    /\ pc = "building"
    /\ op = type
    /\ result' = Ok(result.value)
    /\ pc' = "done"
    /\ UNCHANGED <<client, op, args, phase, requests, response, steps, variant, server>>

PhoneNumberAvailableQueryParams_new == builder_new("PhoneNumberAvailableQueryParams")

PhoneNumberAvailableQueryParams_area_code ==
    \E code \in StrValues :
        builder_push("PhoneNumberAvailableQueryParams", Call("area_code", "str", code),
                     <<"AreaCode", code>>)

PhoneNumberAvailableQueryParams_beta ==
    \E beta \in BOOLEAN :
        builder_push("PhoneNumberAvailableQueryParams", Call("beta", "bool", beta),
                     <<"Beta", bool_to_string(beta)>>)

PhoneNumberAvailableQueryParams_contains ==
    \E value \in StrValues :
        builder_push("PhoneNumberAvailableQueryParams", Call("contains", "str", value),
                     <<"Contains", value>>)

PhoneNumberAvailableQueryParams_exclude_all_address_required ==
    \E value \in BOOLEAN :
        builder_push("PhoneNumberAvailableQueryParams", Call("exclude_all_address_required", "bool", value),
                     <<"ExcludeAllAddressRequired", bool_to_string(value)>>)

PhoneNumberAvailableQueryParams_exclude_foreign_address_required ==
    \E value \in BOOLEAN :
        builder_push("PhoneNumberAvailableQueryParams", Call("exclude_foreign_address_required", "bool", value),
                     <<"ExcludeForeignAddressRequired", bool_to_string(value)>>)

PhoneNumberAvailableQueryParams_exclude_local_address_required ==
    \E value \in BOOLEAN :
        builder_push("PhoneNumberAvailableQueryParams", Call("exclude_local_address_required", "bool", value),
                     <<"ExcludeLocalAddressRequired", bool_to_string(value)>>)

PhoneNumberAvailableQueryParams_fax_enabled ==
    \E enabled \in BOOLEAN :
        builder_push("PhoneNumberAvailableQueryParams", Call("fax_enabled", "bool", enabled),
                     <<"FaxEnabled", bool_to_string(enabled)>>)

PhoneNumberAvailableQueryParams_in_region ==
    \E region \in StrValues :
        builder_push("PhoneNumberAvailableQueryParams", Call("in_region", "str", region),
                     <<"InRegion", region>>)

PhoneNumberAvailableQueryParams_mms_enabled ==
    \E enabled \in BOOLEAN :
        builder_push("PhoneNumberAvailableQueryParams", Call("mms_enabled", "bool", enabled),
                     <<"MmsEnabled", bool_to_string(enabled)>>)

PhoneNumberAvailableQueryParams_sms_enabled ==
    \E enabled \in BOOLEAN :
        builder_push("PhoneNumberAvailableQueryParams", Call("sms_enabled", "bool", enabled),
                     <<"SmsEnabled", bool_to_string(enabled)>>)

PhoneNumberAvailableQueryParams_voice_enabled ==
    \E enabled \in BOOLEAN :
        builder_push("PhoneNumberAvailableQueryParams", Call("voice_enabled", "bool", enabled),
                     <<"VoiceEnabled", bool_to_string(enabled)>>)

PhoneNumberAvailableQueryParams_build == builder_build("PhoneNumberAvailableQueryParams")

PhoneNumberOwnedFilterParams_new == builder_new("PhoneNumberOwnedFilterParams")

PhoneNumberOwnedFilterParams_filter_name ==
    \E name \in StrValues :
        builder_push("PhoneNumberOwnedFilterParams", Call("filter_name", "str", name),
                     <<"filter_name", name>>)

PhoneNumberOwnedFilterParams_filter_number ==
    \E number \in StrValues :
        builder_push("PhoneNumberOwnedFilterParams", Call("filter_number", "str", number),
                     <<"filter_number", number>>)

PhoneNumberOwnedFilterParams_build == builder_build("PhoneNumberOwnedFilterParams")

SubprojectQueryParams_new == builder_new("SubprojectQueryParams")

SubprojectQueryParams_friendly_name ==
    \E friendly_name \in StrValues :
        builder_push("SubprojectQueryParams", Call("friendly_name", "str", friendly_name),
                     <<"FriendlyName", friendly_name>>)

SubprojectQueryParams_status ==
    \E status \in StrValues :
        builder_push("SubprojectQueryParams", Call("status", "str", status),
                     <<"Status", status>>)

SubprojectQueryParams_build == builder_build("SubprojectQueryParams")

PhoneLookupParams_new == builder_new("PhoneLookupParams")

PhoneLookupParams_with_carrier ==
    builder_push("PhoneLookupParams", Call("with_carrier", "none", "carrier"),
                 <<"Type", "carrier">>)

\* with_caller_name that replaces the Type pair already there
PhoneLookupParams_with_caller_name_replacing ==
    /\ pc = "building"
    /\ op = "PhoneLookupParams"
    /\ Len(args) < MaxCalls
    /\ args' = Append(args, Call("with_caller_name", "none", "caller-name"))
    /\ result' = Ok(SelectSeq(result.value, LAMBDA pair : pair[1] # "Type")
                    \o << <<"Type", "caller-name">> >>)
    /\ UNCHANGED <<client, pc, op, phase, requests, response, steps, variant, server>>

PhoneLookupParams_with_caller_name ==
    builder_push("PhoneLookupParams", Call("with_caller_name", "none", "caller-name"),
                 <<"Type", "caller-name">>)

PhoneLookupParams_build == builder_build("PhoneLookupParams")

NextBuilders ==
    \/ PhoneNumberAvailableQueryParams_new
    \/ PhoneNumberAvailableQueryParams_area_code
    \/ PhoneNumberAvailableQueryParams_beta
    \/ PhoneNumberAvailableQueryParams_contains
    \/ PhoneNumberAvailableQueryParams_exclude_all_address_required
    \/ PhoneNumberAvailableQueryParams_exclude_foreign_address_required
    \/ PhoneNumberAvailableQueryParams_exclude_local_address_required
    \/ PhoneNumberAvailableQueryParams_fax_enabled
    \/ PhoneNumberAvailableQueryParams_in_region
    \/ PhoneNumberAvailableQueryParams_mms_enabled
    \/ PhoneNumberAvailableQueryParams_sms_enabled
    \/ PhoneNumberAvailableQueryParams_voice_enabled
    \/ PhoneNumberAvailableQueryParams_build
    \/ PhoneNumberOwnedFilterParams_new
    \/ PhoneNumberOwnedFilterParams_filter_name
    \/ PhoneNumberOwnedFilterParams_filter_number
    \/ PhoneNumberOwnedFilterParams_build
    \/ SubprojectQueryParams_new
    \/ SubprojectQueryParams_friendly_name
    \/ SubprojectQueryParams_status
    \/ SubprojectQueryParams_build
    \/ PhoneLookupParams_new
    \/ PhoneLookupParams_with_carrier
    \/ PhoneLookupParams_with_caller_name
    \/ PhoneLookupParams_build

SpecBuilders == InitBuilders /\ [][NextBuilders]_vars

\* the parameter name each setter stands for
ParamName(setter) ==
    CASE setter = "area_code" -> "AreaCode"
      [] setter = "beta" -> "Beta"
      [] setter = "contains" -> "Contains"
      [] setter = "exclude_all_address_required" -> "ExcludeAllAddressRequired"
      [] setter = "exclude_foreign_address_required" -> "ExcludeForeignAddressRequired"
      [] setter = "exclude_local_address_required" -> "ExcludeLocalAddressRequired"
      [] setter = "fax_enabled" -> "FaxEnabled"
      [] setter = "in_region" -> "InRegion"
      [] setter = "mms_enabled" -> "MmsEnabled"
      [] setter = "sms_enabled" -> "SmsEnabled"
      [] setter = "voice_enabled" -> "VoiceEnabled"
      [] setter = "filter_name" -> "filter_name"
      [] setter = "filter_number" -> "filter_number"
      [] setter = "friendly_name" -> "FriendlyName"
      [] setter = "status" -> "Status"
      [] setter = "with_carrier" -> "Type"
      [] setter = "with_caller_name" -> "Type"

\* the pair a setter call is to contribute: its parameter name with the text
\* of its argument
ExpectedPair(call) ==
    <<ParamName(call.setter),
      CASE call.kind = "str" -> call.value
        [] call.kind = "bool" -> (IF call.value THEN "true" ELSE "false")
        [] call.kind = "none" -> call.value>>

BuilderTypes ==
    {"PhoneNumberAvailableQueryParams", "PhoneNumberOwnedFilterParams",
     "SubprojectQueryParams", "PhoneLookupParams"}

\* C15: build() returns exactly one pair per setter call chained on the
\* builder, in call order: as many pairs as calls, the i-th pair being the
\* name and value of the i-th call, duplicates kept.
C15_BuildKeepsEveryCallInOrder ==
    (Returned /\ op \in BuilderTypes)
        => /\ result.kind = "Ok"
           /\ Len(result.value) = Len(args)
           /\ \A i \in DOMAIN args : result.value[i] = ExpectedPair(args[i])

\* with_carrier().with_caller_name().build() returned both Type pairs
C15_Witness ==
    /\ Returned
    /\ op = "PhoneLookupParams"
    /\ Len(args) = 2
    /\ args[1].setter = "with_carrier"
    /\ args[2].setter = "with_caller_name"
    /\ result.value = << <<"Type", "carrier">>, <<"Type", "caller-name">> >>

(***************************************************************************)
(* Reading a request body as the server does                               *)
(***************************************************************************)
\* the JSON string that starts after the quotation mark before text[i]
RECURSIVE ReadString(_, _, _)
ReadString(text, i, acc) ==
    IF i > Len(text) THEN [ok |-> FALSE, value |-> acc, next |-> i]
    ELSE IF text[i] = "U+0022" THEN [ok |-> TRUE, value |-> acc, next |-> i + 1]
    ELSE IF text[i] = "U+005C"
    THEN IF i + 1 > Len(text)
         THEN [ok |-> FALSE, value |-> acc, next |-> i]
         ELSE ReadString(text, i + 2, Append(acc, text[i + 1]))
    ELSE ReadString(text, i + 1, Append(acc, text[i]))

NotJson == [ok |-> FALSE, fields |-> <<>>]

\* the members of a JSON object of strings from text[i] on
RECURSIVE ReadMembers(_, _, _)
ReadMembers(text, i, acc) ==
    IF i > Len(text) \/ text[i] # "U+0022" THEN NotJson
    ELSE LET k == ReadString(text, i + 1, <<>>)
         IN  IF ~k.ok \/ k.next + 1 > Len(text)
                \/ text[k.next] # ":" \/ text[k.next + 1] # "U+0022"
             THEN NotJson
             ELSE LET v == ReadString(text, k.next + 2, <<>>)
                      fields == Append(acc, <<k.value, v.value>>)
                  IN  IF ~v.ok \/ v.next > Len(text) THEN NotJson
                      ELSE IF text[v.next] = "," THEN ReadMembers(text, v.next + 1, fields)
                      ELSE IF text[v.next] = "}" /\ v.next = Len(text)
                      THEN [ok |-> TRUE, fields |-> fields]
                      ELSE NotJson

\* a JSON object of strings as its (name, value) pairs
ReadJsonObject(text) ==
    IF text = <<"{", "}">> THEN [ok |-> TRUE, fields |-> <<>>]
    ELSE IF Len(text) >= 2 /\ text[1] = "{" THEN ReadMembers(text, 2, <<>>)
    ELSE NotJson

\* application/x-www-form-urlencoded: the character a byte sequence stands for
percent_decode(ch) ==
    IF ch = "+" THEN " "
    ELSE IF \E i \in DOMAIN PercentEscapes : PercentEscapes[i][2] = ch
    THEN PercentEscapes[CHOOSE i \in DOMAIN PercentEscapes : PercentEscapes[i][2] = ch][1]
    ELSE ch

percent_decode_text(text) == [i \in DOMAIN text |-> percent_decode(text[i])]

\* text cut at every sep
RECURSIVE SplitOn(_, _)
SplitOn(text, sep) ==
    IF \A i \in DOMAIN text : text[i] # sep THEN <<text>>
    ELSE LET i == CHOOSE j \in DOMAIN text :
                      text[j] = sep /\ \A k \in 1..(j - 1) : text[k] # sep
         IN  <<SubSeq(text, 1, i - 1)>> \o SplitOn(SubSeq(text, i + 1, Len(text)), sep)

\* a form body as its (name, value) pairs
ParseForm(text) ==
    IF text = <<>> THEN <<>>
    ELSE LET parts == SplitOn(text, "&")
         IN  [i \in DOMAIN parts |->
                LET kv == SplitOn(parts[i], "=")
                IN  <<percent_decode_text(kv[1]),
                      IF Len(kv) = 2 THEN percent_decode_text(kv[2]) ELSE <<"malformed">>>>]

\* C22: every request of buy_phone_number is a POST whose body is a JSON
\* object with the single field number, its value the caller's string.
C22_BuyBodyIsNumber ==
    op = "buy_phone_number"
        => \A i \in DOMAIN requests :
              /\ requests[i].method = "POST"
              /\ requests[i].content = "json"
              /\ ReadJsonObject(WireBody(requests[i]))
                    = [ok |-> TRUE, fields |-> << <<<<"number">>, args.phone_number>> >>]

\* buy_phone_number sent a number holding a quotation mark and a reverse
\* solidus, both escaped on the wire
C22_Witness ==
    /\ op = "buy_phone_number"
    /\ Len(requests) = 1
    /\ args.phone_number = <<"U+0022", "+", "1", "U+005C">>
    /\ WireBody(requests[1])
          = <<"{", "U+0022", "number", "U+0022", ":", "U+0022",
              "U+005C", "U+0022", "+", "1", "U+005C", "U+005C", "U+0022", "}">>

\* the form pairs an operation is to send, from its arguments
ExpectedForm(o, a) ==
    CASE o = "send_sms" ->
            << <<<<"From">>, a.message.from>>, <<<<"To">>, a.message.to>>,
               <<<<"Body">>, a.message.body>> >>
      [] o = "create_subproject" -> << <<<<"FriendlyName">>, a.friendly_name>> >>
      [] o = "update_subproject" ->
            << <<<<"FriendlyName">>, a.friendly_name>> >> \o
            (IF a.status = <<"None">> THEN <<>>
             ELSE << <<<<"Status">>, Tail(a.status)>> >>)

\* C27: the form body of update_subproject is FriendlyName, then Status
\* exactly when the caller gave one; that of create_subproject is
\* FriendlyName alone; that of send_sms is From, To, Body in that order;
\* each value is the caller's.
C27_FormBodies ==
    op \in {"send_sms", "create_subproject", "update_subproject"}
        => \A i \in DOMAIN requests :
              /\ requests[i].content = "form"
              /\ ParseForm(WireBody(requests[i])) = ExpectedForm(op, args)

\* update_subproject with a status sent FriendlyName then Status, the space
\* and the ampersand of the name encoded
C27_Witness ==
    /\ op = "update_subproject"
    /\ Len(requests) = 1
    /\ args.status = <<"Some", "suspended">>
    /\ WireBody(requests[1])
          = <<"FriendlyName", "=", "sub", "+", "one", "%26", "co", "&",
              "Status", "=", "suspended">>

\* what get_subproject(sid) sends and returns on the same client for the same
\* answers of the server
Check == Outcome(client, "get_subproject", args, server)

\* C26: get_subproject_phone_numbers returns the error of its get_subproject
\* check unchanged and then has sent no request but the check's; the listing
\* request is sent only after the check returned success.
C26_CheckFirst ==
    op = "get_subproject_phone_numbers"
        => /\ (Returned /\ phase = 1)
                => /\ requests = Check.requests
                   /\ result = Check.result
                   /\ result.kind \in ErrorKinds
           /\ Len(requests) = 2
                => /\ phase = 2
                   /\ Check.result.kind = "Ok"
                   /\ requests[1] = get_subproject_request(client, args.sid)
                   /\ requests[2] = ListingRequest(client, args)

\* the check failed to parse the subproject body: that error was returned
\* and no listing request was sent
C26_Witness ==
    /\ Returned
    /\ op = "get_subproject_phone_numbers"
    /\ phase = 1
    /\ response.status = 200
    /\ Did("parse")
    /\ result.kind = "Unexpected"
    /\ Len(requests) = 1

\* C24: whenever get_jwt has returned a success value, its jwt_token and its
\* refresh_token are non-empty (stated here for 2xx responses alone, where
\* a success value is the intended result).
C24_TokensNonEmpty ==
    (Returned /\ op = "get_jwt" /\ result.kind = "Ok" /\ is_success(response.status))
        => /\ result.value.jwt_token # ""
           /\ result.value.refresh_token # ""

(***************************************************************************)
(* send_sms on the body of a 2xx response, then get_status on the record.  *)
(* A status value of a body is one token; StatusChars gives its characters.*)
(***************************************************************************)
StatusChars(tok) ==
    CASE tok = "queued" -> QUEUED
      [] tok = "QUEUED" -> <<"Q", "U", "E", "U", "E", "D">>
      [] tok = "sent" -> SENT
      [] tok = "bogus" -> <<"b", "o", "g", "u", "s">>
      [] tok = "" -> <<>>
      [] OTHER -> <<tok>>

\* a body with every required field of SmsResponse, the five given values,
\* and further members
SmsBody(sid, from, to, body, status, more) ==
    <<"{", "sid", sid, "date_created", "v", "date_updated", "v",
      "account_sid", "v", "to", to, "from", from, "body", body,
      "status", status, "num_segments", "1", "num_media", "0",
      "direction", "v", "api_version", "v", "uri", "v">> \o more \o <<"}">>

MoreMembers ==
    {<<>>, <<"price", "0.5">>, <<"date_sent", "null">>, <<"status", "sent">>,
     <<"foo", "1">>}

SmsBodies ==
    {SmsBody(sid, from, to, body, status, more) :
        sid \in {"SM123", ""}, from \in {"+15551234567", "x"},
        to \in {"+15559876543", "y"}, body \in {"hi", ""},
        status \in {"queued", "QUEUED", "sent", "bogus", ""}, more \in MoreMembers}
    \cup {<<"{", "sid", "SM123", "from", "+15551234567", "to", "+15559876543",
            "body", "hi", "status", "queued", "}">>,
          SmsBody("SM123", "x", "y", "hi", "1", <<>>),
          <<>>, <<"Internal Server Error">>}

InitSms ==
    /\ client = new("acme", "proj-1", "key-1")
    /\ pc = "idle"
    /\ op = "none"
    /\ args \in {[response_text |-> b] : b \in SmsBodies}
    /\ phase = 1
    /\ requests = <<>>
    /\ response = NoResponse
    /\ steps = <<>>
    /\ result = NoResult
    /\ variant = "none"
    /\ server = <<>>

\* send_sms from response.text() on, for a 200 response
send_sms_parse ==
    /\ pc = "idle"
    /\ op' = "send_sms"
    /\ result' = send_sms_text(200, args.response_text).ret
    /\ pc' = "done"
    /\ UNCHANGED <<client, args, phase, requests, response, steps, variant, server>>

\* sms_response.get_status() on the record send_sms returned
get_status_of_response ==
    /\ pc = "done"
    /\ op = "send_sms"
    /\ result.kind = "Ok"
    /\ op' = "SmsResponse::get_status"
    /\ args' = result.value
    /\ result' = Ok(get_status([status |-> StatusChars(result.value.status)]))
    /\ UNCHANGED <<client, pc, phase, requests, response, steps, variant, server>>

NextSms ==
    \/ send_sms_parse
    \/ get_status_of_response

SpecSms == InitSms /\ [][NextSms]_vars

\* the body has a member named k whose value is v
HasMember(text, k, v) ==
    \E i \in 1..((Len(text) - 2) \div 2) : text[2 * i] = k /\ text[2 * i + 1] = v

MessageStatusVariants ==
    {"Queued", "Sending", "Sent", "Delivered", "Failed", "Undelivered", "Unknown"}

\* C28: MessageStatus::from applied to the Display text of a variant returns
\* that variant, for the variant any string was classified as (so that
\* classifying the text of a classification changes nothing) and for each of
\* the seven variants.
C28_DisplayFromRoundTrip ==
    /\ (Returned /\ op = "MessageStatus::from(to_string)")
          => result = Ok(args.variant)
    /\ \A v \in MessageStatusVariants :
          MessageStatus_from(MessageStatus_to_string(v)) = v

\* a string classified as Undelivered, displayed and classified again
C28_Witness ==
    /\ Returned
    /\ op = "MessageStatus::from(to_string)"
    /\ args.variant = "Undelivered"
    /\ args.status = UNDELIVERED
    /\ result = Ok("Undelivered")

(***************************************************************************)
(* types.rs: PhoneLookupResponse, deserialized and read through its        *)
(* accessors.                                                              *)
(***************************************************************************)
\* the members a lookup body may hold next to country_code: a choice per key,
\* absent when the choice is the empty text
RECURSIVE LookupMembers(_)
LookupMembers(keys) ==
    IF keys = <<>> THEN {<<>>}
    ELSE {(IF v = "absent" THEN <<>> ELSE <<Head(keys)[1], v>>) \o rest :
             v \in Head(keys)[2], rest \in LookupMembers(Tail(keys))}

LookupChoices ==
    << <<"e164", {"absent", "+15551234567", "null"}>>,
       <<"national_number_formatted", {"absent", "(555) 123-4567", "null"}>>,
       <<"valid_number", {"absent", "true", "false", "null"}>>,
       <<"phone_number", {"absent", "+1999"}>>,
       <<"valid", {"absent", "true", "1"}>>,
       <<"carrier", {"absent", "{..}"}>>,
       <<"url", {"absent", "https://x"}>> >>

LookupBodies ==
    {<<"{", "country_code", "US">> \o more \o <<"}">> : more \in LookupMembers(LookupChoices)}
    \cup {<<"{", "e164", "+15551234567", "}">>,
          <<"{", "country_code", "US", "e164", "1", "}">>,
          <<"{", "country_code", "US", "national_format", "x", "formatted", "true",
            "validation_errors", "[]", "caller_name", "{..}", "}">>,
          <<>>}

InitLookup ==
    /\ client = new("acme", "proj-1", "key-1")
    /\ pc = "idle"
    /\ op = "none"
    /\ args \in {[response_text |-> b, self |-> NoValue] : b \in LookupBodies}
    /\ phase = 1
    /\ requests = <<>>
    /\ response = NoResponse
    /\ steps = <<>>
    /\ result = NoResult
    /\ variant = "none"
    /\ server = <<>>

\* serde_json::from_str::<PhoneLookupResponse>(response_text)
PhoneLookupResponse_from_str ==
    /\ pc = "idle"
    /\ op' = "serde_json::from_str"
    /\ LET p == Deserialize(PhoneLookupResponse, args.response_text)
       IN  result' = IF p.ok THEN Ok(p.value)
                     ELSE [kind |-> "Err", msg |-> p.err, value |-> NoValue]
    /\ pc' = "done"
    /\ UNCHANGED <<client, args, phase, requests, response, steps, variant, server>>

\* PhoneLookupResponse::get_phone_number: self.e164.as_deref().unwrap_or("")
get_phone_number(self) == IF self.e164 = "None" THEN "" ELSE self.e164

\* PhoneLookupResponse::get_national_format
get_national_format(self) ==
    IF self.national_number_formatted = "None" THEN ""
    ELSE self.national_number_formatted

\* PhoneLookupResponse::is_valid: self.valid_number.unwrap_or(false)
is_valid(self) == IF self.valid_number = "None" THEN "false" ELSE self.valid_number

\* an accessor called on the deserialized record
Accessor(name, value) ==
    /\ pc = "done"
    /\ op = "serde_json::from_str"
    /\ result.kind = "Ok"
    /\ op' = name
    /\ args' = [args EXCEPT !.self = result.value]
    /\ result' = Ok(value)
    /\ UNCHANGED <<client, pc, phase, requests, response, steps, variant, server>>

get_phone_number_call == Accessor("get_phone_number", get_phone_number(result.value))
get_national_format_call ==
    Accessor("get_national_format", get_national_format(result.value))
is_valid_call == Accessor("is_valid", is_valid(result.value))

NextLookup ==
    \/ PhoneLookupResponse_from_str
    \/ get_phone_number_call
    \/ get_national_format_call
    \/ is_valid_call

SpecLookup == InitLookup /\ [][NextLookup]_vars

\* the value of member k of the body, or dflt when the body has no such
\* member or has it as null
MemberOr(text, k, dflt) ==
    IF \E v \in {text[i] : i \in DOMAIN text} \ {"null"} : HasMember(text, k, v)
    THEN CHOOSE v \in {text[i] : i \in DOMAIN text} \ {"null"} : HasMember(text, k, v)
    ELSE dflt

\* C29: a deserialized PhoneLookupResponse holds the defaults in carrier,
\* caller_name, phone_number, national_format, valid, validation_errors,
\* formatted and url whatever the body holds under those names;
\* get_phone_number is the body's e164 or the empty string,
\* get_national_format its national_number_formatted or the empty string,
\* is_valid its valid_number or false.
C29_LookupDefaultsAndAccessors ==
    /\ (Returned /\ op = "serde_json::from_str" /\ result.kind = "Ok")
          => /\ result.value.carrier = "None"
             /\ result.value.caller_name = "None"
             /\ result.value.phone_number = ""
             /\ result.value.national_format = ""
             /\ result.value.valid = "false"
             /\ result.value.validation_errors = "None"
             /\ result.value.formatted = "false"
             /\ result.value.url = "None"
    /\ (Returned /\ op = "get_phone_number")
          => result = Ok(MemberOr(args.response_text, "e164", ""))
    /\ (Returned /\ op = "get_national_format")
          => result = Ok(MemberOr(args.response_text, "national_number_formatted", ""))
    /\ (Returned /\ op = "is_valid")
          => result = Ok(MemberOr(args.response_text, "valid_number", "false"))

\* a body with phone_number, valid, carrier and url was deserialized with
\* success and the record holds their defaults
C29_Witness ==
    /\ Returned
    /\ op = "serde_json::from_str"
    /\ result.kind = "Ok"
    /\ HasMember(args.response_text, "phone_number", "+1999")
    /\ HasMember(args.response_text, "valid", "true")
    /\ HasMember(args.response_text, "carrier", "{..}")
    /\ HasMember(args.response_text, "url", "https://x")
    /\ result.value.phone_number = ""
    /\ result.value.valid = "false"
    /\ result.value.carrier = "None"
    /\ result.value.url = "None"

(***************************************************************************)
(* lib.rs, tests::test_create_and_delete_subproject: the run create, get,  *)
(* update, delete, get of one client against a server that keeps a set of  *)
(* subprojects.  Each call is the async fn as a function of the server's   *)
(* answer (Outcome); a call is made when the one before returned Ok, as in *)
(* the test.  Here the variable server is the set of subprojects, steps    *)
(* the calls made so far with their results.                               *)
(***************************************************************************)
\* the characters of a string as the string
RECURSIVE Flatten(_)
Flatten(text) == IF text = <<>> THEN "" ELSE Head(text) \o Flatten(Tail(text))

ServerSids == {"AC1", "AC2", "AC3"}
LifecycleNames == Names \cup {<<"Test", " ", "Subproject", " ", "1">>}
UpdatedNames == {<<"Test", " ", "Subproject", " ", "1", " ", "-", " ", "Updated">>}
                \cup Names

Subproject(sid, friendly_name) == [sid |-> sid, friendly_name |-> friendly_name]

\* the body of a response that describes one subproject
SubprojectBody(s) ==
    <<"{", "sid", s.sid, "friendly_name", Flatten(s.friendly_name),
      "status", "active", "auth_token", "PT1", "date_created", "Mon",
      "date_updated", "Mon", "subresource_uris", "{}", "}">>

\* the value of the first pair of a form with this name, or dflt
FormValue(pairs, name, dflt) ==
    IF \E i \in DOMAIN pairs : pairs[i][1] = <<name>>
    THEN pairs[CHOOSE i \in DOMAIN pairs :
                  /\ pairs[i][1] = <<name>>
                  /\ \A j \in 1..(i - 1) : pairs[j][1] # <<name>>][2]
    ELSE dflt

\* the server: the new set of subprojects and the answer to one request;
\* fresh is the sid it gives to a subproject it creates, created the status
\* it answers a creation with
Serve(store, req, fresh, created) ==
    LET path == SubSeq(req.url, 4, Len(req.url))
        form == ParseForm(WireBody(req))
        found == {s \in store : <<s.sid>> = Tail(path)}
        reply(st, status, body) ==
            [store |-> st, answer |-> Answer(status, body, <<>>, <<>>)]
    IN  IF req.user # "proj-1" \/ req.pass # "key-1"
        THEN reply(store, UNAUTHORIZED, <<"Unauthorized">>)
        ELSE IF path = <<"/api/laml/2010-04-01/Accounts">> /\ req.method = "POST"
        THEN LET s == Subproject(fresh, FormValue(form, "FriendlyName", <<>>))
             IN  reply(store \cup {s}, created, SubprojectBody(s))
        ELSE IF Len(path) < 2 \/ path[1] # "/api/laml/2010-04-01/Accounts/"
                \/ found = {}
        THEN reply(store, NOT_FOUND, <<"Not Found">>)
        ELSE LET s == CHOOSE x \in found : TRUE
                 t == Subproject(s.sid, FormValue(form, "FriendlyName", s.friendly_name))
             IN  CASE req.method = "GET" -> reply(store, 200, SubprojectBody(s))
                   [] req.method = "POST" ->
                        reply((store \ {s}) \cup {t}, 200, SubprojectBody(t))
                   [] req.method = "DELETE" -> reply(store \ {s}, 204, <<>>)
                   [] OTHER -> reply(store, 400, <<"Bad Request">>)

InitLifecycle ==
    /\ client \in Clients
    /\ pc = "idle"
    /\ op = "none"
    /\ args \in {[friendly_name |-> n, updated_name |-> u] :
                    n \in LifecycleNames, u \in UpdatedNames}
    /\ phase = 1
    /\ requests = <<>>
    /\ response = NoResponse
    /\ steps = <<>>
    /\ result = NoResult
    /\ variant = "none"
    /\ server \in {{}, {Subproject("AC1", <<"other">>)}}

\* call number n of the run: operation o with arguments a, answered by the server
LifecycleCall(n, o, a) ==
    \E fresh \in ServerSids \ {s.sid : s \in server}, created \in {200, 201} :
      \E served \in {Serve(server, FirstRequest(client, o, a), fresh, created)} :
      \E out \in {Outcome(client, o, a, <<served.answer>>)} :
          /\ Len(steps) = n - 1
          /\ n > 1 => steps[n - 1].result.kind = "Ok"
          /\ op' = o
          /\ result' = out.result
          /\ requests' = requests \o out.requests
          /\ response' = IF out.requests = <<>> THEN response
                         ELSE [status |-> served.answer.status,
                               body |-> served.answer.body, error |-> <<>>]
          /\ server' = IF out.requests = <<>> THEN server ELSE served.store
          /\ steps' = Append(steps, [op |-> o, args |-> a, result |-> out.result])
          /\ pc' = IF n = 5 \/ out.result.kind # "Ok" THEN "done" ELSE "idle"
          /\ UNCHANGED <<client, args, phase, variant>>

\* the sid of the response of create_subproject, as the test passes it on
CreatedSid == <<steps[1].result.value.sid>>

run_create_subproject ==
    LifecycleCall(1, "create_subproject",
                  [NoArgs EXCEPT !.friendly_name = args.friendly_name])

run_get_subproject ==
    /\ Len(steps) = 1
    /\ steps[1].result.kind = "Ok"
    /\ LifecycleCall(2, "get_subproject", [NoArgs EXCEPT !.sid = CreatedSid])

run_update_subproject ==
    /\ Len(steps) = 2
    /\ LifecycleCall(3, "update_subproject",
                     [NoArgs EXCEPT !.sid = CreatedSid,
                                    !.friendly_name = args.updated_name,
                                    !.status = <<"None">>])

run_delete_subproject ==
    /\ Len(steps) = 3
    /\ LifecycleCall(4, "delete_subproject", [NoArgs EXCEPT !.sid = CreatedSid])

run_get_deleted_subproject ==
    /\ Len(steps) = 4
    /\ LifecycleCall(5, "get_subproject", [NoArgs EXCEPT !.sid = CreatedSid])

NextLifecycle ==
    \/ run_create_subproject
    \/ run_get_subproject
    \/ run_update_subproject
    \/ run_delete_subproject
    \/ run_get_deleted_subproject

SpecLifecycle == InitLifecycle /\ [][NextLifecycle]_vars

\* C23: in the run create, get, update, delete, get against a server that
\* keeps a set of subprojects, the get after a successful create returns the
\* created sid and name, the update returns that sid with the new name, and
\* the get after a successful delete returns NotFound.
C23_SubprojectLifecycle ==
    /\ (Len(steps) >= 2 /\ steps[1].result.kind = "Ok")
          => /\ steps[2].result.kind = "Ok"
             /\ steps[2].result.value.sid = steps[1].result.value.sid
             /\ steps[2].result.value.friendly_name = Flatten(args.friendly_name)
    /\ (Len(steps) >= 3 /\ steps[1].result.kind = "Ok")
          => /\ steps[3].result.kind = "Ok"
             /\ steps[3].result.value.sid = steps[1].result.value.sid
             /\ steps[3].result.value.friendly_name = Flatten(args.updated_name)
    /\ (Len(steps) >= 5 /\ steps[4].result.kind = "Ok")
          => steps[5].result.kind = "NotFound"

\* the whole run was made on a server that held another subproject, with a
\* name that needs escaping on the wire; the last get returned NotFound
C23_Witness ==
    /\ Len(steps) = 5
    /\ \A n \in 1..4 : steps[n].result.kind = "Ok"
    /\ steps[5].result.kind = "NotFound"
    /\ args.friendly_name = <<"sub", " ", "one", "&", "co">>
    /\ args.updated_name # args.friendly_name
    /\ steps[2].result.value.friendly_name = "sub one&co"
    /\ server = {Subproject("AC1", <<"other">>)}

(***************************************************************************)
(* Invocations running concurrently on one shared client.  Every operation *)
(* takes &self: the invocations share the client record, which none of     *)
(* them writes, and the process, whose descriptors and threads each        *)
(* blocking form spends on a runtime of its own (Runtime::new()) until its *)
(* block_on returns.  Here op, args, variant, pc, requests, server and     *)
(* result are indexed by invocation, server[i] being the answers to the    *)
(* requests of invocation i, and response holds the number of runtimes the *)
(* process can hold at a time.  Each invocation is the async fn as a       *)
(* function of its answers (Outcome, see ReturnedIsOutcome), its requests  *)
(* built from the client as it is when they are sent.                      *)
(***************************************************************************)
MaxInvocations == 2
Invocations == 1..MaxInvocations
RuntimeLimits == {1, 2}

ConcurrentCalls ==
    {[op |-> "get_jwt", args |-> NoArgs],
     [op |-> "delete_subproject", args |-> [NoArgs EXCEPT !.sid = <<"AC1">>]],
     [op |-> "get_subproject_phone_numbers", args |-> [NoArgs EXCEPT !.sid = <<"AC1">>]]}

\* the answers the environment may give to request n of operation o
AnswersTo ==
  [o \in {call.op : call \in ConcurrentCalls}, n \in 1..2 |->
    {Answer(0, <<>>, <<"error sending request: connection refused">>, <<>>),
     Answer(UNAUTHORIZED, <<"Unauthorized">>, <<>>, <<>>),
     Answer(200,
            CASE o = "get_jwt" -> ValidBody(JwtResponse)
              [] o = "delete_subproject" -> <<>>
              [] o = "get_subproject_phone_numbers" /\ n = 1 -> ValidBody(SubprojectResponse)
              [] OTHER -> ValidBody(SubprojectPhoneNumbersResponse),
            <<>>, <<>>)}]

InitConcurrent ==
    /\ client \in {new(sp, "proj-1", "key-1") : sp \in SpaceNames}
    /\ pc = [i \in Invocations |-> "idle"]
    /\ op = [i \in Invocations |-> "none"]
    /\ args = [i \in Invocations |-> NoArgs]
    /\ variant = [i \in Invocations |-> "none"]
    /\ requests = [i \in Invocations |-> <<>>]
    /\ server = [i \in Invocations |-> <<>>]
    /\ result = [i \in Invocations |-> NoResult]
    /\ response \in {[runtimes |-> n] : n \in RuntimeLimits}
    /\ phase = 1
    /\ steps = <<>>

\* the runtimes alive: one per blocking form that has not returned
LiveRuntimes == {i \in Invocations : variant[i] = "blocking" /\ pc[i] = "send"}

\* an invocation that overwrites the api_key of the shared client once its
\* own request is built
Poll_clearing_key(i, call, v) ==
    \E c \in {[client EXCEPT !.api_key = ""]},
       out \in {Outcome(client, call.op, call.args, <<>>)} :
        /\ pc[i] = "idle"
        /\ op' = [op EXCEPT ![i] = call.op]
        /\ args' = [args EXCEPT ![i] = call.args]
        /\ variant' = [variant EXCEPT ![i] = v]
        /\ requests' = [requests EXCEPT ![i] = out.requests]
        /\ result' = [result EXCEPT ![i] = out.result]
        /\ pc' = [pc EXCEPT ![i] = IF out.result = NoResult THEN "send" ELSE "done"]
        /\ client' = c
        /\ UNCHANGED <<server, response, phase, steps>>

\* invocation i polls the future of its async fn for the first time: the
\* request is built from &self and sent, or the URL is refused
Poll(i, call, v) ==
    \E out \in {Outcome(client, call.op, call.args, <<>>)} :
        /\ pc[i] = "idle"
        /\ op' = [op EXCEPT ![i] = call.op]
        /\ args' = [args EXCEPT ![i] = call.args]
        /\ variant' = [variant EXCEPT ![i] = v]
        /\ requests' = [requests EXCEPT ![i] = out.requests]
        /\ result' = [result EXCEPT ![i] = out.result]
        /\ pc' = [pc EXCEPT ![i] = IF out.result = NoResult THEN "send" ELSE "done"]
        /\ UNCHANGED <<client, server, response, phase, steps>>

\* a task awaits client.op(..)
concurrent_await ==
    \E i \in Invocations, call \in ConcurrentCalls : Poll(i, call, "async")

\* a thread calls client.op_blocking(..): Runtime::new() gives it a runtime
\* while the process can hold one more, and Err otherwise, which unwrap()
\* turns into a panic
concurrent_block_on ==
    \E i \in Invocations, call \in ConcurrentCalls :
      \/ /\ Cardinality(LiveRuntimes) < response.runtimes
         /\ Poll(i, call, "blocking")
      \/ /\ Cardinality(LiveRuntimes) >= response.runtimes
         /\ pc[i] = "idle"
         /\ op' = [op EXCEPT ![i] = call.op]
         /\ args' = [args EXCEPT ![i] = call.args]
         /\ variant' = [variant EXCEPT ![i] = "blocking"]
         /\ result' = [result EXCEPT ![i] =
                          Panic(<<"called Result::unwrap() on an Err value">>)]
         /\ pc' = [pc EXCEPT ![i] = "panicked"]
         /\ UNCHANGED <<client, requests, server, response, phase, steps>>

\* the answer to the request invocation i awaits arrives; the async fn goes
\* on to its next request or returns, and a blocking form drops its runtime
concurrent_respond ==
    \E i \in Invocations :
      /\ pc[i] = "send"
      /\ \E answer \in AnswersTo[op[i], Len(server[i]) + 1] :
           \E out \in {Outcome(client, op[i], args[i], Append(server[i], answer))} :
               /\ server' = [server EXCEPT ![i] = Append(@, answer)]
               /\ requests' = [requests EXCEPT ![i] =
                                  @ \o SubSeq(out.requests, Len(@) + 1, Len(out.requests))]
               /\ result' = [result EXCEPT ![i] = out.result]
               /\ pc' = [pc EXCEPT ![i] = IF out.result = NoResult THEN "send" ELSE "done"]
      /\ UNCHANGED <<client, op, args, variant, response, phase, steps>>

NextConcurrent ==
    \/ concurrent_await
    \/ concurrent_block_on
    \/ concurrent_respond

SpecConcurrent == InitConcurrent /\ [][NextConcurrent]_vars

\* what invocation i does when it runs alone
Alone(i) == Outcome(client, op[i], args[i], server[i])

\* C25: every invocation that has ended returned, having sent the requests
\* and returning the result that its own arguments and the answers to its
\* own requests determine, whatever the other invocations did meanwhile.
C25_NoInterference ==
    \A i \in Invocations :
        pc[i] \in {"done", "panicked"}
            => /\ pc[i] = "done"
               /\ requests[i] = Alone(i).requests
               /\ result[i] = Alone(i).result

\* the invocations whose async fn is awaited do not interfere: each sends
\* the requests and returns the result it would alone
AwaitedDoNotInterfere ==
    \A i \in Invocations :
        variant[i] = "async"
            => /\ requests[i] = Alone(i).requests
               /\ result[i] = Alone(i).result
               /\ pc[i] # "panicked"

\* a blocking form panics in Runtime::new().unwrap() only while the other
\* blocking forms hold every runtime the process can give
PanicsOnlyAmongBlocking ==
    \A i \in Invocations :
        pc[i] = "panicked"
            => Cardinality({j \in Invocations \ {i} : variant[j] = "blocking"})
                   >= response.runtimes

\* two invocations in flight at once have each returned Ok
AwaitedDoNotInterfere_Witness ==
    /\ variant[1] = "async"
    /\ variant[2] = "async"
    /\ op[1] = "get_subproject_phone_numbers"
    /\ op[2] = "get_jwt"
    /\ result[1].kind = "Ok"
    /\ result[2].kind = "Ok"

====
